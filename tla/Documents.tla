----------------------------- MODULE Documents ------------------------------
(***************************************************************************)
(* What one document becomes: the lines a loader reads, the sections they  *)
(* stand in and the chunks a citation can name.  A line is the level of the *)
(* heading it is (0 for body text) and its words; lines, paragraphs and    *)
(* pages differ only in what is counted.  Whitespace, punctuation and the  *)
(* way a paragraph is wrapped do not reach a chunk's text, so a text is    *)
(* the words of its heading and of its body.                               *)
(***************************************************************************)
EXTENDS Integers, Sequences, SequencesExt, FiniteSets, FiniteSetsExt

\* Files that hold no lines: a broken archive or a scan is reported and
\* skipped, bytes that are not UTF-8 end the import, a missing file is passed over.
Unreadable == [is |-> "unreadable", lines |-> <<>>]
Undecodable == [is |-> "undecodable", lines |-> <<>>]
Gone == [is |-> "gone", lines |-> <<>>]
Holding(lines) == [is |-> "text", lines |-> lines]

Line(level, words) == [level |-> level, words |-> words]

IsBlock(line) == line.words # <<>>
IsHeading(line) == IsBlock(line) /\ line.level > 0

\* A heading truncates the breadcrumb to its parent and descends.
Descend(path, line) ==
  IF IsHeading(line)
    THEN Append(SubSeq(path, 1, Min({line.level - 1, Len(path)})), line.words)
    ELSE path

SectionPath(lines, n) == FoldLeft(Descend, <<>>, SubSeq(lines, 1, n))

\* A chunk begins at a heading, or at the text before the first one.
Starts(lines) ==
  {n \in DOMAIN lines :
     IsBlock(lines[n]) /\ (IsHeading(lines[n]) \/ \A k \in 1..(n - 1) : ~IsBlock(lines[k]))}

Section(lines, start) ==
  {n \in start..Len(lines) :
     IsBlock(lines[n]) /\ \A k \in (start + 1)..n : ~IsHeading(lines[k])}

Body(lines, start) == {n \in Section(lines, start) : ~IsHeading(lines[n])}

WordsOf(lines, numbers) ==
  FlattenSeq([n \in DOMAIN lines |-> IF n \in numbers THEN lines[n].words ELSE <<>>])

\* The place a citation names: the document, the section and where it starts.
ChunkId(doc, lines, start) == <<doc, SectionPath(lines, start), start>>

Text(lines, start) ==
  [heading |-> IF IsHeading(lines[start]) THEN lines[start].words ELSE <<>>,
   body |-> WordsOf(lines, Body(lines, start))]

\* A section without a body makes no chunk.
Chunks(doc, lines) ==
  {[id |-> ChunkId(doc, lines, n), doc |-> doc, text |-> Text(lines, n)] :
     n \in {s \in Starts(lines) : Body(lines, s) # {}}}

Tokens(text) == ToSet(text.heading) \cup ToSet(text.body)
=============================================================================
