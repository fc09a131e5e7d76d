------------------------------- MODULE SourceMaps -------------------------------
(***************************************************************************)
(* Where a claim stands in the author's files                              *)
(* (src/src/rrxiv/parser/source_map.py): positions in the parsed text,     *)
(* looked up in an index of the marks flatten-tex left in tex_path.        *)
(*                                                                         *)
(* The index is of tex_path as it is on disk (from_flat_file), the         *)
(* positions are in the text in which parse_tex_file has resolved its      *)
(* inputs. Both are counted in characters, of lines that are equally long  *)
(* but for the two that the parser writes where it finds a directive.      *)
(***************************************************************************)
EXTENDS Manuscripts

LineWidth == 20    \* characters of a line, with its newline
CommentMore == 24  \* "% rrxiv-parser: missing " before the directive it repeats

\* Characters before line i of the parsed text. The rest of a directive's line is its newline.
Offset(text, i) ==
  LET Before(mark) == Cardinality({j \in 1 .. i - 1 : text[j].mark = mark})
  IN LineWidth * (i - 1) + CommentMore * Before("comment") - (LineWidth - 1) * Before("rest")

\* from_flat_text: the regions between an inlined mark and its end, and the
\* lines with no counterpart in the author's files. A mark inside a region is
\* one of them, the outermost is not.
Scanned(s, t, i) ==
  IF t.mark = "inlined"
  THEN [s EXCEPT !.open = Append(@, [file |-> t.file, start |-> i]),
                 !.synthetic = IF s.open = <<>> THEN @ ELSE @ \cup {i}]
  ELSE IF t.mark = "end" /\ s.open # <<>> /\ Last(s.open).file = t.file
  THEN [s EXCEPT !.open = Front(@), !.synthetic = @ \cup {i},
                 !.regions = @ \cup {[file |-> t.file, start |-> Last(s.open).start, end |-> i]}]
  ELSE IF t.mark \in {"end", "missing"} THEN [s EXCEPT !.synthetic = @ \cup {i}] ELSE s

ScanMarks(text) ==
  LET scan[i \in 0 .. Len(text)] ==
        IF i = 0 THEN [open |-> <<>>, regions |-> {}, synthetic |-> {}] ELSE Scanned(scan[i - 1], text[i], i)
      all == scan[Len(text)]
  IN [regions |-> all.regions \cup {[file |-> o.file, start |-> o.start, end |-> Len(text)] : o \in ToSet(all.open)},
      synthetic |-> all.synthetic,
      lines |-> Len(text)]

\* _offset_to_flat_line: past the end, the empty line after the last one.
FlatLine(map, offset) ==
  IF offset < LineWidth * map.lines THEN (offset \div LineWidth) + 1 ELSE map.lines + 1

MarksInside(map, start, line) == {j \in map.synthetic : start < j} \* mutant
MarksBefore(map, start, line) == {j \in map.synthetic : start < j /\ j <= line}

\* locate: the innermost region around the line, and its lines less the marks.
LocateLine(map, line) ==
  LET around == {r \in map.regions : r.start < line /\ line <= r.end}
      inner == CHOOSE r \in around : \A q \in around : q.start <= r.start
  IN IF around = {} THEN [file |-> "main", line |-> line]
     ELSE [file |-> inner.file, line |-> Max({1, line - inner.start - Cardinality(MarksBefore(map, inner.start, line))})]
Locate(map, offset) == LocateLine(map, FlatLine(map, offset))

SourceMap(paper) == [text |-> Body(paper), marks |-> ScanMarks(RawText(paper))]

\* _build_source_location (build.py): from the claim to the end of its evidence
\* (to its own when there is none), clamped when they are in two files.
SourceLocation(map, claim, end) ==
  LET from == Locate(map.marks, Offset(map.text, claim))
      to == Locate(map.marks, Offset(map.text, end) + LineWidth - 2)    \* its closing brace
  IN [file |-> from.file, line_start |-> from.line,
      line_end |-> IF to.file = from.file /\ to.line > from.line THEN to.line ELSE from.line]
=============================================================================
