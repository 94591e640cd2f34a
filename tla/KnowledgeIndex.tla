--------------------------- MODULE KnowledgeIndex ---------------------------
(***************************************************************************)
(* The document index: `kb import` reads each source directory into the    *)
(* workspace that may see it, one autocommitted row at a time, and has the *)
(* rows without a vector embedded; beside it, questions are answered from  *)
(* the rows of their own workspace and citations are looked up again.      *)
(* Files are edited, and an import is killed or refused, at any point.     *)
(***************************************************************************)
EXTENDS Documents, TLC

CONSTANTS
  Docs,         \* the documents, each at its path
  Contents,     \* what each document may hold: [Docs -> SUBSET content]
  Sources,      \* sequence of [workspace, docs], the docs in any order
  Questions,    \* what is asked: sets of words
  Embedding,    \* an embeddings endpoint is configured
  BatchSize,    \* texts sent to it at a time
  Limit,        \* hits returned
  MaxEdits, MaxImports, MaxSearches, MaxRevocations   \* bounds

Workspaces == {Sources[s].workspace : s \in DOMAIN Sources}
OwnedBy(ws) == UNION {Sources[s].docs : s \in {n \in DOMAIN Sources : Sources[n].workspace = ws}}

ASSUME IndexAssumption ==
  /\ DOMAIN Contents = Docs
  /\ Sources \in Seq([workspace : Workspaces, docs : SUBSET Docs]) \ {<<>>}    \* without one, kb import refuses
  /\ Embedding \in BOOLEAN /\ BatchSize \in Nat \ {0} /\ Limit \in Nat \ {0}
  /\ \A asked \in Questions : IsFiniteSet(asked)
  /\ {MaxEdits, MaxImports, MaxSearches, MaxRevocations} \subseteq Nat

\* A document is a finite list of lines, and a line one of words.
ASSUME ContentsAssumption ==
  \A doc \in Docs : \A content \in Contents[doc] :
    /\ content.lines \in Seq(ToSet(content.lines))
    /\ \A line \in ToSet(content.lines) : line.words \in Seq(ToSet(line.words))

MinScore == 2    \* shared words below this are noise
NoText == [heading |-> <<>>, body |-> <<>>]
NoVector == NoText    \* a vector is the text it was computed from

VARIABLES
  files,     \* what is on disk
  chunks,    \* the table chunks: at most one row for an id
  kb,        \* the importing process: where it is and what it has in memory
  report,    \* what the last import took in: for a document, where and what
  search,    \* one question being answered
  cites,     \* the citations stored with drafts, and the text each was made from
  revoked,   \* the workspaces that were ever revoked
  used       \* how much of the bounds is used up

vars == <<files, chunks, kb, report, search, cites, revoked, used>>

NotImporting == [pc |-> "idle", source |-> 1, todo |-> {}, rows |-> {}, window |-> {}]
NotSearching == [pc |-> "idle", ws |-> "", asked |-> {}, vectors |-> {}, rows |-> {}, hits |-> {}]

Init ==
  /\ files \in {f \in [Docs -> UNION {Contents[d] : d \in Docs}] :
                 \A d \in Docs : f[d] \in Contents[d]}
  /\ chunks = {} /\ cites = {} /\ report = <<>> /\ revoked = {}
  /\ kb = NotImporting /\ search = NotSearching
  /\ used = [edits |-> 0, imports |-> 0, searches |-> 0, revocations |-> 0]

-----------------------------------------------------------------------------
(* The table. *)

RowsWith(id) == {r \in chunks : r.id = id}

ChunksAnywhere(ws) == chunks

\* chunks_in: the workspace is in the WHERE.
ChunksIn(ws) == {r \in chunks : r.ws = ws}

\* vectors_in
VectorsIn(ws) == {r \in ChunksIn(ws) : r.vector # NoVector}

\* SQLite gives a new row the place behind all others.
Behind(rows) == 1 + Max({0} \cup {r.at : r \in rows})

Row(chunk, ws, vector, at) ==
  [id |-> chunk.id, doc |-> chunk.doc, ws |-> ws, text |-> chunk.text, vector |-> vector,
   at |-> at]

UpsertKeepingVectors(chunk, ws) ==
  LET others == chunks \ RowsWith(chunk.id)
      vector == IF RowsWith(chunk.id) = {} THEN NoVector
                ELSE (CHOOSE r \in RowsWith(chunk.id) : TRUE).vector
  IN others \cup {Row(chunk, ws, vector, Behind(others))}

\* INSERT OR REPLACE: whatever workspace the row was in, it is in this one
\* now, its vector is gone, and it comes last.
Upsert(chunk, ws) ==
  LET others == chunks \ RowsWith(chunk.id)
  IN others \cup {Row(chunk, ws, NoVector, Behind(others))}

WithVector(row) ==
  (chunks \ RowsWith(row.id)) \cup {[r EXCEPT !.vector = row.text] : r \in RowsWith(row.id)}

-----------------------------------------------------------------------------
(* kb import. *)

Source == Sources[kb.source]

Import ==
  /\ kb.pc = "idle" /\ used.imports < MaxImports
  /\ used' = [used EXCEPT !.imports = @ + 1]
  /\ kb' = [NotImporting EXCEPT !.pc = "list"]
  /\ report' = <<>>
  /\ UNCHANGED <<files, chunks, search, cites, revoked>>

\* The directory is listed once, before its first file is read.
List ==
  /\ kb.pc = "list"
  /\ kb' = [kb EXCEPT !.pc = "file",
                      !.todo = {d \in Source.docs : files[d] # Gone}]
  /\ UNCHANGED <<files, chunks, report, search, cites, revoked, used>>

\* A file that cannot be parsed is skipped, and so is one that is gone by now.
SkipFile ==
  /\ kb.pc = "file"
  /\ \E doc \in kb.todo :
       /\ files[doc] \in {Unreadable, Gone}
       /\ kb' = [kb EXCEPT !.todo = @ \ {doc}]
  /\ UNCHANGED <<files, chunks, report, search, cites, revoked, used>>

Took(doc) ==
  [d \in DOMAIN report \cup {doc} |->
     IF d = doc THEN [ws |-> Source.workspace, lines |-> files[doc].lines] ELSE report[d]]

ReadFileAndPrune ==
  /\ kb.pc = "file"
  /\ \E doc \in kb.todo :
       /\ files[doc].is = "text"
       /\ kb' = [kb EXCEPT !.pc = "upsert", !.todo = @ \ {doc}, !.rows = Chunks(doc, files[doc].lines)]
       /\ report' = Took(doc)
       /\ chunks' = {r \in chunks : r.doc # doc}
  /\ UNCHANGED <<files, search, cites, revoked, used>>

\* load_document and chunk_document; nothing is deleted from the table.
ReadFile ==
  /\ kb.pc = "file"
  /\ \E doc \in kb.todo :
       /\ files[doc].is = "text"
       /\ kb' = [kb EXCEPT !.pc = "upsert", !.todo = @ \ {doc}, !.rows = Chunks(doc, files[doc].lines)]
       /\ report' = Took(doc)
  /\ UNCHANGED <<files, chunks, search, cites, revoked, used>>

FirstOf(rows) == {c \in rows : \A other \in rows : c.id[3] <= other.id[3]}

\* _upsert: one autocommitted statement for each chunk, in their order.
UpsertChunk ==
  /\ kb.pc = "upsert"
  /\ IF kb.rows = {}
       THEN kb' = [kb EXCEPT !.pc = "file"] /\ UNCHANGED chunks
       ELSE \E chunk \in FirstOf(kb.rows) :
              /\ chunks' = Upsert(chunk, Source.workspace)
              /\ kb' = [kb EXCEPT !.rows = @ \ {chunk}]
  /\ UNCHANGED <<files, report, search, cites, revoked, used>>

NextSource ==
  kb' = IF kb.source = Len(Sources)
          THEN NotImporting
          ELSE [NotImporting EXCEPT !.pc = "list", !.source = kb.source + 1]

\* embed_missing reads the rows without a vector once.
SourceRead ==
  /\ kb.pc = "file" /\ kb.todo = {}
  /\ IF Embedding
       THEN kb' = [kb EXCEPT !.pc = "embed",
                             !.rows = {r \in ChunksIn(Source.workspace) : r.vector = NoVector}]
       ELSE NextSource
  /\ UNCHANGED <<files, chunks, report, search, cites, revoked, used>>

Batches(rows) == kSubset(Min({BatchSize, Cardinality(rows)}), rows)

EmbedOneBatch ==
  /\ kb.pc = "embed" /\ kb.window = {}
  /\ IF kb.rows = {}
       THEN NextSource
       ELSE \E batch \in Batches(kb.rows) : kb' = [kb EXCEPT !.window = batch, !.rows = {}]
  /\ UNCHANGED <<files, chunks, report, search, cites, revoked, used>>

\* The endpoint embeds one batch.
EmbedBatch ==
  /\ kb.pc = "embed" /\ kb.window = {}
  /\ IF kb.rows = {}
       THEN NextSource
       ELSE \E batch \in Batches(kb.rows) : kb' = [kb EXCEPT !.window = batch, !.rows = @ \ batch]
  /\ UNCHANGED <<files, chunks, report, search, cites, revoked, used>>

StoreVector ==
  /\ kb.pc = "embed"
  /\ \E row \in kb.window :
       /\ chunks' = WithVector(row)
       /\ kb' = [kb EXCEPT !.window = @ \ {row}]
  /\ UNCHANGED <<files, report, search, cites, revoked, used>>

\* Bytes that do not decode, an endpoint that refuses, a kill: the command
\* ends where it is, without the rest of its sources.
Stop ==
  /\ kb.pc # "idle"
  /\ kb' = NotImporting /\ report' = <<>>
  /\ UNCHANGED <<files, chunks, search, cites, revoked, used>>

\* revoke_workspace
Revoke(ws) ==
  /\ used.revocations < MaxRevocations
  /\ used' = [used EXCEPT !.revocations = @ + 1]
  /\ chunks' = chunks \ ChunksIn(ws)
  /\ revoked' = revoked \cup {ws}
  /\ report' = [d \in {e \in DOMAIN report : report[e].ws # ws} |-> report[d]]
  /\ UNCHANGED <<files, kb, search, cites>>

Edit(doc) ==
  /\ used.edits < MaxEdits
  /\ used' = [used EXCEPT !.edits = @ + 1]
  /\ \E content \in Contents[doc] \ {files[doc]} : files' = [files EXCEPT ![doc] = content]
  /\ UNCHANGED <<chunks, kb, report, search, cites, revoked>>

-----------------------------------------------------------------------------
(* Answering a question from the documents. *)

Score(asked, text) == Cardinality(asked \cap Tokens(text))

\* The floor on similarity and the floor on shared words are taken to agree.
Match(row, by, asked) == [row |-> row, score |-> Score(asked, by)]
Matches(found) == {m \in found : m.score >= MinScore}

\* Best first, and of equals the one that is in the table longest: the sort is
\* stable.
Ahead(matches, m) ==
  {o \in matches \ {m} :
     o.score > m.score \/ (o.score = m.score /\ o.row.at < m.row.at)}
Best(matches) == {m.row : m \in {x \in matches : Cardinality(Ahead(matches, x)) < Limit}}

\* _semantic: a row is ranked by the vector that was read before it.
SemanticHits(rows, vectors, asked) ==
  Best(Matches(UNION {{Match(r, v.vector, asked) : v \in {w \in vectors : w.id = r.id}} : r \in rows}))

\* A row is scored by the terms it has when its turn comes.
KeywordHits(rows, asked) ==
  Best(Matches(UNION {{Match(r, n.text, asked) : n \in {c \in ChunksIn(r.ws) : c.id = r.id}} : r \in rows}))

Search(ws, asked) ==
  /\ search.pc = "idle" /\ used.searches < MaxSearches
  /\ used' = [used EXCEPT !.searches = @ + 1]
  /\ search' = [NotSearching EXCEPT !.ws = ws, !.asked = asked,
                  !.pc = IF Embedding THEN "vectors" ELSE "chunks"]
  /\ UNCHANGED <<files, chunks, kb, report, cites, revoked>>

\* Without any vector the corpus was never embedded: words it is.
ReadVectors ==
  /\ search.pc = "vectors"
  /\ search' = [search EXCEPT !.pc = "chunks", !.vectors = VectorsIn(search.ws)]
  /\ UNCHANGED <<files, chunks, kb, report, cites, revoked, used>>

ReadChunks ==
  /\ search.pc = "chunks"
  /\ IF search.vectors = {}
       THEN search' = [search EXCEPT !.pc = "score", !.rows = ChunksIn(search.ws)]
       ELSE search' = [search EXCEPT !.pc = "found", !.vectors = {},
                         !.hits = SemanticHits(ChunksIn(search.ws), search.vectors, search.asked)]
  /\ UNCHANGED <<files, chunks, kb, report, cites, revoked, used>>

ScoreChunks ==
  /\ search.pc = "score"
  /\ search' = [search EXCEPT !.pc = "found", !.rows = {},
                              !.hits = KeywordHits(search.rows, search.asked)]
  /\ UNCHANGED <<files, chunks, kb, report, cites, revoked, used>>

\* A hit carries what its chunk said; a rule stores the rendered citation.
Ref(row) == [id |-> row.id, hash |-> row.text]
Render(ref) == ref.id
Parse(rendered) == [id |-> rendered, hash |-> NoText]

\* A draft cites one hit, or none; or embedding the question failed.
Cite ==
  /\ search.pc = "found" \/ (search.pc = "chunks" /\ search.vectors # {})
  /\ search' = NotSearching
  /\ \/ \E r \in search.hits :
          cites' = cites \cup {[ws |-> search.ws, ref |-> Render(Ref(r)), of |-> r.text]}
     \/ UNCHANGED cites
  /\ UNCHANGED <<files, chunks, kb, report, revoked, used>>

\* _status
Status(ws, ref) ==
  LET found == {r \in ChunksIn(ws) : r.id = ref.id}
  IN IF found = {} THEN "unavailable"
     ELSE IF ref.hash # NoText /\ \A r \in found : ref.hash # r.text THEN "changed"
     ELSE "ok"

\* What confirming and executing ask of a stored citation.
Stands(cite) == Status(cite.ws, Parse(cite.ref)) = "ok"

-----------------------------------------------------------------------------
Importing ==
  Import \/ List \/ SkipFile \/ ReadFile \/ UpsertChunk \/ SourceRead
    \/ EmbedBatch \/ StoreVector \/ Stop

Answering ==
  \/ \E ws \in Workspaces, asked \in Questions : Search(ws, asked)
  \/ ReadVectors \/ ReadChunks \/ ScoreChunks \/ Cite

Next ==
  \/ Importing
  \/ Answering
  \/ \E ws \in Workspaces : Revoke(ws)
  \/ \E doc \in Docs : Edit(doc)

Spec == Init /\ [][Next]_vars

-----------------------------------------------------------------------------
(* What must hold. *)

\* The type invariant: an id names one row.
TypeOK ==
  /\ \A r, s \in chunks : r.id = s.id => r = s
  /\ kb.pc \in {"idle", "list", "file", "upsert", "embed"}
  /\ search.pc \in {"idle", "vectors", "chunks", "score", "found"}
  /\ DOMAIN report \subseteq Docs /\ revoked \subseteq Workspaces

\* Permission holds before text is loaded: whatever an import is in the middle
\* of, what a question is answered from comes from documents of the asker's
\* workspace ("the workspace is part of the query").
ScopeHolds ==
  \A r \in search.vectors \cup search.rows \cup search.hits : r.doc \in OwnedBy(search.ws)

\* Importing again is idempotent for unchanged content ("a stored citation
\* survives a re-index"): at no moment, whether an import finishes, stops or is
\* in between two rows, is a citation lost of a section that its file still has,
\* in the same place and with the same text.  The file has one workspace, and
\* that was not revoked.
CitationsSurviveImports ==
  \A c \in cites :
    LET doc == c.ref[1] IN
    /\ c.ws \notin revoked /\ \A ws \in Workspaces \ {c.ws} : doc \notin OwnedBy(ws)
    /\ \E chunk \in Chunks(doc, files[doc].lines) : chunk.id = c.ref /\ chunk.text = c.of
    => Stands(c)

\* The vector stored with a row is of the text stored with it, although one
\* import replaces rows and embeds them by separate statements, dies between any
\* two of them, and the next one starts from what it left.
VectorsDescribeTheirText == \A r \in chunks : r.vector \in {NoVector, r.text}

\* What a search that nothing disturbs returns.
Hits(ws, asked) ==
  IF VectorsIn(ws) = {} THEN KeywordHits(ChunksIn(ws), asked)
                        ELSE SemanticHits(ChunksIn(ws), VectorsIn(ws), asked)

\* Nothing is forgotten on the way, no file, batch or source: once the command
\* has finished, a question that shares enough words with a section taken in is
\* answered with that section, its text of now, unless `Limit` other rows share
\* as many.  These may be rows of text that is gone: nothing prunes them, and
\* of equals they come first.
FinishedImportsAreSearchable ==
  kb.pc = "idle" =>
    \A doc \in DOMAIN report : \A chunk \in Chunks(doc, report[doc].lines) :
      LET ws == report[doc].ws IN
      \A asked \in Questions \cup {Tokens(chunk.text)} :
        Score(asked, chunk.text) >= MinScore =>
          \/ \E r \in Hits(ws, asked) : r.id = chunk.id /\ r.text = chunk.text
          \/ Limit <= Cardinality({r \in ChunksIn(ws) : r.id # chunk.id
                                      /\ Score(asked, r.text) >= Score(asked, chunk.text)})

-----------------------------------------------------------------------------
(* What the repository's documents say that the code does not keep. *)

\* "An edited source expires the draft": once an import has taken the edit in,
\* a citation made from another text no longer stands.
EditedCitationsLapse ==
  kb.pc = "idle" =>
    \A c \in cites, doc \in DOMAIN report :
      (\E chunk \in Chunks(doc, report[doc].lines) : chunk.id = c.ref /\ chunk.text # c.of)
        => ~Stands(c)
=============================================================================
