-------------------------- MODULE KnowledgeProofs ---------------------------
(***************************************************************************)
(* Theorems about KnowledgeIndex, for every set of documents and contents, *)
(* every list of source directories and every bound.                       *)
(*                                                                         *)
(* The inductive invariant relates the table to what the two processes     *)
(* beside it still hold in memory: the import holds chunks of a document of *)
(* the source it is in and rows whose text nobody else replaces, and the   *)
(* search holds rows of its own workspace.                                 *)
(***************************************************************************)
EXTENDS KnowledgeIndex, SiftProofs, FiniteSetTheorems

-----------------------------------------------------------------------------
(* What the operators return. *)

\* The document a citation leads into.
DocOf(id) == id[1]

\* A chunk belongs to the document it was cut from, and so does its citation.
LEMMA ChunkOfItsDoc ==
  ASSUME NEW doc, NEW lines, NEW chunk \in Chunks(doc, lines)
  PROVE  chunk.doc = doc /\ DocOf(chunk.id) = doc
<1>1. PICK n \in {s \in Starts(lines) : Body(lines, s) # {}} :
        chunk = [id |-> ChunkId(doc, lines, n), doc |-> doc, text |-> Text(lines, n)]
  BY DEF Chunks
<1>2. chunk.id = <<doc, SectionPath(lines, n), n>>
  BY <1>1 DEF ChunkId
<1>3. QED
  BY <1>1, <1>2 DEF DocOf

\* Ranking invents no row.
LEMMA BestAmong ==
  ASSUME NEW matches, NEW r \in Best(matches)
  PROVE  \E m \in matches : m.row = r
BY DEF Best

\* A semantic search returns rows it was given.
LEMMA SemanticHitsAmong ==
  ASSUME NEW rows, NEW vectors, NEW asked
  PROVE  SemanticHits(rows, vectors, asked) \subseteq rows
<1> SUFFICES ASSUME NEW r \in SemanticHits(rows, vectors, asked) PROVE r \in rows
  OBVIOUS
<1> DEFINE found ==
      UNION {{Match(q, v.vector, asked) : v \in {w \in vectors : w.id = q.id}} : q \in rows}
<1>1. PICK m \in Matches(found) : m.row = r
  BY BestAmong DEF SemanticHits
<1>2. m \in found
  BY <1>1 DEF Matches
<1>3. PICK q \in rows, v \in vectors : m = Match(q, v.vector, asked)
  BY <1>2
<1>4. QED
  BY <1>1, <1>3 DEF Match

\* So does a search by words.
LEMMA KeywordHitsAmong ==
  ASSUME NEW rows, NEW asked
  PROVE  KeywordHits(rows, asked) \subseteq rows
<1> SUFFICES ASSUME NEW r \in KeywordHits(rows, asked) PROVE r \in rows
  OBVIOUS
<1> DEFINE found ==
      UNION {{Match(q, n.text, asked) : n \in {c \in ChunksIn(q.ws) : c.id = q.id}} : q \in rows}
<1>1. PICK m \in Matches(found) : m.row = r
  BY BestAmong DEF KeywordHits
<1>2. m \in found
  BY <1>1 DEF Matches
<1>3. PICK q \in rows, n \in chunks : m = Match(q, n.text, asked)
  BY <1>2 DEF ChunksIn
<1>4. QED
  BY <1>1, <1>3 DEF Match

-----------------------------------------------------------------------------
(* The inductive invariant. *)

IsRow(r) == r = [id |-> r.id, doc |-> r.doc, ws |-> r.ws, text |-> r.text, vector |-> r.vector,
               at |-> r.at]

Keyed == \A r, s \in chunks : r.id = s.id => r = s

\* A row is of a document that its workspace may see, and its vector, if it
\* has one, was computed from its text.
RowsAreSound ==
  \A r \in chunks :
    /\ IsRow(r) /\ r.ws \in Workspaces /\ r.doc \in OwnedBy(r.ws)
    /\ DocOf(r.id) = r.doc
    /\ r.vector \in {NoVector, r.text}

ImportShape ==
  /\ kb = [pc |-> kb.pc, source |-> kb.source, todo |-> kb.todo,
           rows |-> kb.rows, window |-> kb.window]
  /\ kb.source \in DOMAIN Sources

\* What is still to be read or written belongs to the source being imported.
WorkIsOfTheSource ==
  /\ kb.pc \in {"file", "upsert"} => kb.todo \subseteq Source.docs
  /\ kb.pc = "upsert" =>
       \A c \in kb.rows : c.doc \in Source.docs /\ DocOf(c.id) = c.doc

\* No text is replaced while it is away to be embedded.
TextsStandWhileEmbedded ==
  kb.pc = "embed" =>
    \A row \in kb.rows \cup kb.window, r \in chunks : r.id = row.id => r.text = row.text

NothingAway == kb.pc # "embed" => kb.window = {}

SearchShape ==
  search = [pc |-> search.pc, ws |-> search.ws, asked |-> search.asked,
            vectors |-> search.vectors, rows |-> search.rows, hits |-> search.hits]

\* A citation of this workspace into a document only it owns has a row.
Cited(ws, id) ==
  ws \notin revoked /\ (\A other \in Workspaces \ {ws} : DocOf(id) \notin OwnedBy(other))
    => \E r \in chunks : r.id = id /\ r.ws = ws

Held == search.vectors \cup search.rows \cup search.hits

RowsHeldAreCited ==
  \A r \in Held : r.doc \in OwnedBy(search.ws) /\ Cited(search.ws, r.id)

CitesAreCited ==
  \A c \in cites : c = [ws |-> c.ws, ref |-> c.ref, of |-> c.of] /\ Cited(c.ws, c.ref)

IndexInv ==
  /\ Keyed /\ RowsAreSound
  /\ ImportShape /\ WorkIsOfTheSource /\ TextsStandWhileEmbedded /\ NothingAway
  /\ SearchShape /\ RowsHeldAreCited /\ CitesAreCited

-----------------------------------------------------------------------------
(* Sources and the rows of the table. *)

LEMMA SourceFacts ==
  ASSUME NEW s \in DOMAIN Sources
  PROVE  /\ Sources[s].workspace \in Workspaces
         /\ Sources[s].docs \subseteq OwnedBy(Sources[s].workspace)
  BY DEF Workspaces, OwnedBy

LEMMA FirstSource == 1 \in DOMAIN Sources
<1>1. Sources \in Seq([workspace : Workspaces, docs : SUBSET Docs]) /\ Sources # <<>>
  BY IndexAssumption
<1>2. QED
  BY <1>1

LEMMA NextInRange ==
  ASSUME NEW s \in DOMAIN Sources, s # Len(Sources)
  PROVE  s + 1 \in DOMAIN Sources
<1>1. Sources \in Seq([workspace : Workspaces, docs : SUBSET Docs])
  BY IndexAssumption
<1>2. QED
  BY <1>1

\* Every row is still there, unless it is revoked or the row of a document
\* that another workspace owns as well.
RowsStay ==
  /\ revoked \subseteq revoked'
  /\ \A r \in chunks :
       \/ \E q \in chunks' : q.id = r.id /\ q.ws = r.ws
       \/ r.ws \in revoked'
       \/ \E other \in Workspaces \ {r.ws} : DocOf(r.id) \in OwnedBy(other)

LEMMA CitedStays ==
  ASSUME NEW ws, NEW id, Cited(ws, id), RowsStay
  PROVE  Cited(ws, id)'
<1> SUFFICES ASSUME ws \notin revoked',
                    \A other \in Workspaces \ {ws} : DocOf(id) \notin OwnedBy(other)
             PROVE  \E q \in chunks' : q.id = id /\ q.ws = ws
  BY DEF Cited
<1>1. ws \notin revoked
  BY DEF RowsStay
<1>2. PICK r \in chunks : r.id = id /\ r.ws = ws
  BY <1>1 DEF Cited
<1>3. QED
  BY <1>2 DEF RowsStay

LEMMA CitesStay ==
  ASSUME CitesAreCited, RowsStay, UNCHANGED cites
  PROVE  CitesAreCited'
  BY CitedStays DEF CitesAreCited

LEMMA HeldStays ==
  ASSUME SearchShape, RowsHeldAreCited, RowsStay, UNCHANGED search
  PROVE  SearchShape' /\ RowsHeldAreCited'
<1>1. SearchShape'
  BY DEF SearchShape
<1>2. Held' = Held
  BY DEF Held
<1>3. RowsHeldAreCited'
  BY <1>2, CitedStays DEF RowsHeldAreCited
<1>4. QED
  BY <1>1, <1>3

LEMMA UnchangedTableStays ==
  ASSUME UNCHANGED <<chunks, revoked>>
  PROVE  RowsStay
  BY DEF RowsStay

\* A row of the asker's workspace may be held and cited.
LEMMA OwnRowsAreCited ==
  ASSUME RowsAreSound, NEW r \in chunks
  PROVE  r.doc \in OwnedBy(r.ws) /\ Cited(r.ws, r.id)
  BY DEF RowsAreSound, Cited

-----------------------------------------------------------------------------
(* Every step preserves the invariant. *)

LEMMA InitInv == Init => IndexInv
<1> SUFFICES ASSUME Init PROVE IndexInv
  OBVIOUS
<1>1. Keyed /\ RowsAreSound /\ CitesAreCited
  BY DEF Init, Keyed, RowsAreSound, CitesAreCited
<1>2. ImportShape /\ WorkIsOfTheSource /\ TextsStandWhileEmbedded /\ NothingAway
  BY FirstSource
     DEF Init, NotImporting, ImportShape, WorkIsOfTheSource, TextsStandWhileEmbedded,
         NothingAway
<1>3. SearchShape /\ RowsHeldAreCited
  BY DEF Init, NotSearching, SearchShape, Held, RowsHeldAreCited
<1>4. QED
  BY <1>1, <1>2, <1>3 DEF IndexInv

\* The part of the invariant about the importing process.
ImportInv == ImportShape /\ WorkIsOfTheSource /\ TextsStandWhileEmbedded /\ NothingAway

\* A step of the importing process that leaves the table as it is.
LEMMA TableUnchanged ==
  ASSUME IndexInv, UNCHANGED <<chunks, search, cites, revoked>>, ImportInv'
  PROVE  IndexInv'
<1>1. RowsStay
  BY UnchangedTableStays
<1>2. Keyed' /\ RowsAreSound'
  BY DEF IndexInv, Keyed, RowsAreSound, IsRow
<1>3. CitesAreCited' /\ SearchShape' /\ RowsHeldAreCited'
  BY <1>1, CitesStay, HeldStays DEF IndexInv
<1>4. QED
  BY <1>2, <1>3 DEF IndexInv, ImportInv

LEMMA NextSourceInv ==
  ASSUME IndexInv, NextSource
  PROVE  ImportInv'
<1>1. kb.source \in DOMAIN Sources
  BY DEF IndexInv, ImportShape
<1>2. CASE kb.source = Len(Sources)
  BY <1>2, FirstSource
     DEF NextSource, NotImporting, ImportInv, ImportShape, WorkIsOfTheSource,
         TextsStandWhileEmbedded, NothingAway
<1>3. CASE kb.source # Len(Sources)
  <2>1. kb' = [pc |-> "list", source |-> kb.source + 1, todo |-> {}, rows |-> {}, window |-> {}]
    BY <1>3 DEF NextSource, NotImporting
  <2>2. kb.source + 1 \in DOMAIN Sources
    BY <1>1, <1>3, NextInRange
  <2>3. QED
    BY <2>1, <2>2
       DEF ImportInv, ImportShape, WorkIsOfTheSource, TextsStandWhileEmbedded, NothingAway
<1>4. QED
  BY <1>2, <1>3

LEMMA ImportInvHolds ==
  ASSUME IndexInv, Import
  PROVE  IndexInv'
<1>1. kb' = [pc |-> "list", source |-> 1, todo |-> {}, rows |-> {}, window |-> {}]
  BY DEF Import, NotImporting
<1>2. ImportInv'
  BY <1>1, FirstSource
     DEF ImportInv, ImportShape, WorkIsOfTheSource, TextsStandWhileEmbedded, NothingAway
<1>3. QED
  BY <1>2, TableUnchanged DEF Import

LEMMA ListInv ==
  ASSUME IndexInv, List
  PROVE  IndexInv'
<1>1. kb' = [pc |-> "file", source |-> kb.source,
             todo |-> {d \in Source.docs : files[d] # Gone},
             rows |-> kb.rows, window |-> kb.window]
  BY DEF List, IndexInv, ImportShape
<1>2. Source' = Source
  BY <1>1 DEF Source
<1>3. ImportInv'
  BY <1>1, <1>2
     DEF List, ImportInv, ImportShape, WorkIsOfTheSource, TextsStandWhileEmbedded,
         NothingAway, IndexInv
<1>4. QED
  BY <1>3, TableUnchanged DEF List

LEMMA SkipFileInv ==
  ASSUME IndexInv, SkipFile
  PROVE  IndexInv'
<1>1. PICK doc \in kb.todo : kb' = [kb EXCEPT !.todo = @ \ {doc}]
  BY DEF SkipFile
<1>2. kb' = [pc |-> "file", source |-> kb.source, todo |-> kb.todo \ {doc},
             rows |-> kb.rows, window |-> kb.window]
  BY <1>1 DEF SkipFile, IndexInv, ImportShape
<1>3. Source' = Source
  BY <1>2 DEF Source
<1>4. ImportInv'
  BY <1>2, <1>3
     DEF SkipFile, ImportInv, ImportShape, WorkIsOfTheSource, TextsStandWhileEmbedded,
         NothingAway, IndexInv
<1>5. QED
  BY <1>4, TableUnchanged DEF SkipFile

LEMMA ReadFileInv ==
  ASSUME IndexInv, ReadFile
  PROVE  IndexInv'
<1>1. PICK doc \in kb.todo :
        kb' = [kb EXCEPT !.pc = "upsert", !.todo = @ \ {doc},
                         !.rows = Chunks(doc, files[doc].lines)]
  BY DEF ReadFile
<1>2. kb' = [pc |-> "upsert", source |-> kb.source, todo |-> kb.todo \ {doc},
             rows |-> Chunks(doc, files[doc].lines), window |-> kb.window]
  BY <1>1 DEF IndexInv, ImportShape
<1>3. Source' = Source
  BY <1>2 DEF Source
<1>4. kb.todo \subseteq Source.docs
  BY DEF ReadFile, IndexInv, WorkIsOfTheSource
<1>5. \A c \in Chunks(doc, files[doc].lines) : c.doc = doc /\ DocOf(c.id) = doc
  BY ChunkOfItsDoc
<1>6. ImportShape'
  BY <1>2 DEF ImportShape, IndexInv
<1>7. WorkIsOfTheSource'
  BY <1>2, <1>3, <1>4, <1>5 DEF WorkIsOfTheSource
<1>8. TextsStandWhileEmbedded' /\ NothingAway'
  BY <1>2 DEF ReadFile, IndexInv, TextsStandWhileEmbedded, NothingAway
<1>9. QED
  BY <1>6, <1>7, <1>8, TableUnchanged DEF ImportInv, ReadFile

LEMMA SourceReadInv ==
  ASSUME IndexInv, SourceRead
  PROVE  IndexInv'
<1>1. UNCHANGED <<chunks, search, cites, revoked>>
  BY DEF SourceRead
<1>2. CASE ~Embedding
  BY <1>1, <1>2, NextSourceInv, TableUnchanged DEF SourceRead
<1>3. CASE Embedding
  <2> DEFINE missing == {r \in ChunksIn(Source.workspace) : r.vector = NoVector}
  <2>1. kb' = [kb EXCEPT !.pc = "embed", !.rows = missing]
    BY <1>3 DEF SourceRead
  <2>2. kb' = [pc |-> "embed", source |-> kb.source, todo |-> kb.todo,
               rows |-> missing, window |-> kb.window]
    BY <2>1 DEF IndexInv, ImportShape
  <2>3. kb.window = {}
    BY DEF SourceRead, IndexInv, NothingAway
  <2>4. missing \subseteq chunks
    BY DEF ChunksIn
  <2>5. \A row \in missing, r \in chunks : r.id = row.id => r.text = row.text
    BY <2>4 DEF IndexInv, Keyed
  <2>6. TextsStandWhileEmbedded'
    BY <1>1, <2>2, <2>3, <2>5 DEF TextsStandWhileEmbedded
  <2>7. ImportShape' /\ WorkIsOfTheSource' /\ NothingAway'
    BY <2>2 DEF IndexInv, ImportShape, WorkIsOfTheSource, NothingAway
  <2>8. QED
    BY <1>1, <2>6, <2>7, TableUnchanged DEF ImportInv
<1>4. QED
  BY <1>2, <1>3

LEMMA EmbedBatchInv ==
  ASSUME IndexInv, EmbedBatch
  PROVE  IndexInv'
<1>1. UNCHANGED <<chunks, search, cites, revoked>>
  BY DEF EmbedBatch
<1>2. CASE kb.rows = {}
  BY <1>1, <1>2, NextSourceInv, TableUnchanged DEF EmbedBatch
<1>3. CASE kb.rows # {}
  <2>1. PICK batch \in Batches(kb.rows) :
          kb' = [kb EXCEPT !.window = batch, !.rows = @ \ batch]
    BY <1>3 DEF EmbedBatch
  <2>2. kb' = [pc |-> "embed", source |-> kb.source, todo |-> kb.todo,
               rows |-> kb.rows \ batch, window |-> batch]
    BY <2>1 DEF EmbedBatch, IndexInv, ImportShape
  <2>3. batch \subseteq kb.rows
    BY DEF Batches, kSubset
  <2>4. TextsStandWhileEmbedded'
    BY <1>1, <2>2, <2>3 DEF EmbedBatch, IndexInv, TextsStandWhileEmbedded
  <2>5. ImportShape' /\ WorkIsOfTheSource' /\ NothingAway'
    BY <2>2 DEF IndexInv, ImportShape, WorkIsOfTheSource, NothingAway
  <2>6. QED
    BY <1>1, <2>4, <2>5, TableUnchanged DEF ImportInv
<1>4. QED
  BY <1>2, <1>3

\* The row a chunk becomes.
RowOf(chunk, ws, at) ==
  [id |-> chunk.id, doc |-> chunk.doc, ws |-> ws, text |-> chunk.text, vector |-> NoVector,
   at |-> at]

\* The only step that moves a row to another workspace or gives it a text: it
\* is of the source being imported, so whoever else cites its document shares it.
LEMMA UpsertChunkInv ==
  ASSUME IndexInv, UpsertChunk
  PROVE  IndexInv'
<1>1. CASE kb.rows = {}
  <2>1. kb' = [pc |-> "file", source |-> kb.source, todo |-> kb.todo,
               rows |-> kb.rows, window |-> kb.window]
    BY <1>1 DEF UpsertChunk, IndexInv, ImportShape
  <2>2. Source' = Source
    BY <2>1 DEF Source
  <2>3. kb.window = {}
    BY DEF UpsertChunk, IndexInv, NothingAway
  <2>4. ImportInv'
    BY <2>1, <2>2, <2>3
       DEF UpsertChunk, IndexInv, ImportInv, ImportShape, WorkIsOfTheSource,
           TextsStandWhileEmbedded, NothingAway
  <2>5. QED
    BY <1>1, <2>4, TableUnchanged DEF UpsertChunk
<1>2. CASE kb.rows # {}
  <2> DEFINE ws == Source.workspace
  <2>1. PICK chunk \in kb.rows :
          chunks' = Upsert(chunk, ws) /\ kb' = [kb EXCEPT !.rows = @ \ {chunk}]
    BY <1>2 DEF UpsertChunk, FirstOf
  <2> DEFINE new == RowOf(chunk, ws, Behind(chunks \ RowsWith(chunk.id)))
  <2>2. chunks' = {r \in chunks : r.id # chunk.id} \cup {new}
    BY <2>1 DEF Upsert, RowsWith, RowOf, Row
  <2>3. /\ IsRow(new) /\ new.id = chunk.id /\ new.doc = chunk.doc /\ new.ws = ws
        /\ new.vector = NoVector
    BY DEF RowOf, IsRow
  <2>4. chunk.doc \in Source.docs /\ DocOf(chunk.id) = chunk.doc
    BY DEF UpsertChunk, IndexInv, WorkIsOfTheSource
  <2>5. ws \in Workspaces /\ chunk.doc \in OwnedBy(ws)
    BY <2>4, SourceFacts DEF IndexInv, ImportShape, Source
  <2>6. kb' = [pc |-> "upsert", source |-> kb.source, todo |-> kb.todo,
               rows |-> kb.rows \ {chunk}, window |-> kb.window]
    BY <2>1 DEF UpsertChunk, IndexInv, ImportShape
  <2>7. Source' = Source
    BY <2>6 DEF Source
  <2>8. Keyed'
    BY <2>2, <2>3 DEF IndexInv, Keyed
  <2>9. RowsAreSound'
    BY <2>2, <2>3, <2>4, <2>5 DEF IndexInv, RowsAreSound, IsRow
  <2>10. RowsStay
    <3>1. revoked' = revoked
      BY DEF UpsertChunk
    <3>2. ASSUME NEW r \in chunks
          PROVE  \/ \E q \in chunks' : q.id = r.id /\ q.ws = r.ws
                 \/ \E other \in Workspaces \ {r.ws} : DocOf(r.id) \in OwnedBy(other)
      <4>1. CASE r.id # chunk.id
        BY <2>2, <4>1
      <4>2. CASE r.id = chunk.id /\ r.ws = ws
        BY <2>2, <2>3, <4>2
      <4>3. CASE r.id = chunk.id /\ r.ws # ws
        BY <2>4, <2>5, <4>3
      <4>4. QED
        BY <4>1, <4>2, <4>3
    <3>3. QED
      BY <3>1, <3>2 DEF RowsStay
  <2>11. CitesAreCited' /\ SearchShape' /\ RowsHeldAreCited'
    BY <2>10, CitesStay, HeldStays DEF UpsertChunk, IndexInv
  <2>12. ImportShape' /\ WorkIsOfTheSource' /\ TextsStandWhileEmbedded' /\ NothingAway'
    BY <2>6, <2>7
       DEF UpsertChunk, IndexInv, ImportShape, WorkIsOfTheSource, TextsStandWhileEmbedded,
           NothingAway
  <2>13. QED
    BY <2>8, <2>9, <2>11, <2>12 DEF IndexInv
<1>3. QED
  BY <1>1, <1>2

\* A vector is stored under the id its text was read with, and that text has
\* not been replaced since.
LEMMA StoreVectorInv ==
  ASSUME IndexInv, StoreVector
  PROVE  IndexInv'
<1>1. PICK row \in kb.window :
        chunks' = WithVector(row) /\ kb' = [kb EXCEPT !.window = @ \ {row}]
  BY DEF StoreVector
<1>2. kb' = [pc |-> "embed", source |-> kb.source, todo |-> kb.todo,
             rows |-> kb.rows, window |-> kb.window \ {row}]
  BY <1>1 DEF StoreVector, IndexInv, ImportShape
<1> DEFINE Kept(q, r) ==
      /\ q = [id |-> r.id, doc |-> r.doc, ws |-> r.ws, text |-> r.text, vector |-> q.vector,
              at |-> r.at]
      /\ q.vector \in {NoVector, r.text}
<1>3. ASSUME NEW r \in chunks
      PROVE  \E q \in chunks' : Kept(q, r)
  <2>1. IsRow(r) /\ r.vector \in {NoVector, r.text}
    BY DEF IndexInv, RowsAreSound
  <2>2. CASE r.id # row.id
    BY <1>1, <2>1, <2>2 DEF WithVector, RowsWith, IsRow
  <2>3. CASE r.id = row.id
    <3>1. [r EXCEPT !.vector = row.text] \in chunks'
      BY <1>1, <2>3 DEF WithVector, RowsWith
    <3>2. [r EXCEPT !.vector = row.text] =
            [id |-> r.id, doc |-> r.doc, ws |-> r.ws, text |-> r.text, vector |-> row.text,
              at |-> r.at]
      BY <2>1 DEF IsRow
    <3>3. r.text = row.text
      BY <2>3 DEF StoreVector, IndexInv, TextsStandWhileEmbedded
    <3>4. QED
      BY <3>1, <3>2, <3>3
  <2>4. QED
    BY <2>2, <2>3
<1>4. ASSUME NEW q \in chunks'
      PROVE  \E r \in chunks : Kept(q, r) /\ (q.id # row.id => q = r)
                               /\ (q.id = row.id => q.vector = row.text)
  <2>1. CASE q \in chunks /\ q.id # row.id
    <3>1. IsRow(q) /\ q.vector \in {NoVector, q.text}
      BY <2>1 DEF IndexInv, RowsAreSound
    <3>2. QED
      BY <2>1, <3>1 DEF IsRow
  <2>2. ASSUME NEW r \in RowsWith(row.id), q = [r EXCEPT !.vector = row.text]
        PROVE  \E s \in chunks : Kept(q, s) /\ (q.id # row.id => q = s)
                                 /\ (q.id = row.id => q.vector = row.text)
    <3>1. r \in chunks /\ r.id = row.id
      BY DEF RowsWith
    <3>2. IsRow(r) /\ r.text = row.text
      BY <3>1 DEF StoreVector, IndexInv, RowsAreSound, TextsStandWhileEmbedded
    <3>3. q = [id |-> r.id, doc |-> r.doc, ws |-> r.ws, text |-> r.text, vector |-> row.text,
              at |-> r.at]
      BY <2>2, <3>2 DEF IsRow
    <3>4. QED
      BY <3>1, <3>2, <3>3
  <2>3. QED
    BY <1>1, <2>1, <2>2 DEF WithVector, RowsWith
<1>5. Keyed'
  <2> SUFFICES ASSUME NEW q \in chunks', NEW s \in chunks', q.id = s.id
               PROVE  q = s
    BY DEF Keyed
  <2>1. PICK r \in chunks : Kept(q, r) /\ (q.id # row.id => q = r)
                            /\ (q.id = row.id => q.vector = row.text)
    BY <1>4
  <2>2. PICK t \in chunks : Kept(s, t) /\ (s.id # row.id => s = t)
                            /\ (s.id = row.id => s.vector = row.text)
    BY <1>4
  <2>3. q.id = r.id /\ s.id = t.id
    BY <2>1, <2>2
  <2>4. r = t
    BY <2>3 DEF IndexInv, Keyed
  <2>5. QED
    BY <2>1, <2>2, <2>4
<1>6. RowsAreSound'
  <2> SUFFICES ASSUME NEW q \in chunks'
               PROVE  /\ IsRow(q) /\ q.ws \in Workspaces /\ q.doc \in OwnedBy(q.ws)
                      /\ DocOf(q.id) = q.doc
                      /\ q.vector \in {NoVector, q.text}
    BY DEF RowsAreSound
  <2>1. PICK r \in chunks : Kept(q, r)
    BY <1>4
  <2>2. q.id = r.id /\ q.doc = r.doc /\ q.ws = r.ws /\ q.text = r.text
    BY <2>1
  <2>3. IsRow(q)
    BY <2>1, <2>2 DEF IsRow
  <2>4. QED
    BY <2>1, <2>2, <2>3 DEF IndexInv, RowsAreSound
<1>7. RowsStay
  <2>1. ASSUME NEW r \in chunks PROVE \E q \in chunks' : q.id = r.id /\ q.ws = r.ws
    BY <1>3
  <2>2. QED
    BY <2>1 DEF RowsStay, StoreVector
<1>8. CitesAreCited' /\ SearchShape' /\ RowsHeldAreCited'
  BY <1>7, CitesStay, HeldStays DEF StoreVector, IndexInv
<1>9. TextsStandWhileEmbedded'
  <2>1. ASSUME NEW q \in chunks' PROVE \E r \in chunks : q.id = r.id /\ q.text = r.text
    BY <1>4
  <2>2. QED
    BY <1>2, <2>1 DEF StoreVector, IndexInv, TextsStandWhileEmbedded
<1>10. ImportShape' /\ WorkIsOfTheSource' /\ NothingAway'
  BY <1>2 DEF IndexInv, ImportShape, WorkIsOfTheSource, NothingAway
<1>11. QED
  BY <1>5, <1>6, <1>8, <1>9, <1>10 DEF IndexInv

LEMMA StopInv ==
  ASSUME IndexInv, Stop
  PROVE  IndexInv'
<1>1. kb' = [pc |-> "idle", source |-> 1, todo |-> {}, rows |-> {}, window |-> {}]
  BY DEF Stop, NotImporting
<1>2. ImportInv'
  BY <1>1, FirstSource
     DEF ImportInv, ImportShape, WorkIsOfTheSource, TextsStandWhileEmbedded, NothingAway
<1>3. QED
  BY <1>2, TableUnchanged DEF Stop

\* A step that leaves the importing process and the rows alone.
LEMMA ImportUnchanged ==
  ASSUME ImportInv, UNCHANGED <<chunks, kb>>
  PROVE  ImportInv'
  BY DEF ImportInv, ImportShape, WorkIsOfTheSource, TextsStandWhileEmbedded, NothingAway, Source

\* Rows go, and only those of the workspace whose citations may fail.
LEMMA RevokeInv ==
  ASSUME IndexInv, NEW ws \in Workspaces, Revoke(ws)
  PROVE  IndexInv'
<1>1. chunks' = {r \in chunks : r.ws # ws} /\ revoked' = revoked \cup {ws}
  BY DEF Revoke, ChunksIn
<1>2. Keyed' /\ RowsAreSound'
  BY <1>1 DEF IndexInv, Keyed, RowsAreSound
<1>3. RowsStay
  BY <1>1 DEF RowsStay
<1>4. CitesAreCited' /\ SearchShape' /\ RowsHeldAreCited'
  BY <1>3, CitesStay, HeldStays DEF Revoke, IndexInv
<1>5. kb' = kb
  BY DEF Revoke
<1>6. ImportShape' /\ WorkIsOfTheSource' /\ NothingAway'
  BY <1>5 DEF IndexInv, ImportShape, WorkIsOfTheSource, NothingAway, Source
<1>7. TextsStandWhileEmbedded'
  BY <1>1, <1>5 DEF IndexInv, TextsStandWhileEmbedded
<1>8. QED
  BY <1>2, <1>4, <1>6, <1>7 DEF IndexInv

LEMMA EditInv ==
  ASSUME IndexInv, NEW doc \in Docs, Edit(doc)
  PROVE  IndexInv'
<1>1. ImportInv'
  BY ImportUnchanged DEF Edit, IndexInv, ImportInv
<1>2. QED
  BY <1>1, TableUnchanged DEF Edit

\* A step of a question: what it holds afterwards are rows of its workspace
\* that are in the table now, or that it held already.
LEMMA QuestionSteps ==
  ASSUME IndexInv, UNCHANGED <<chunks, kb, revoked>>, SearchShape',
         CitesAreCited',
         \A r \in Held' : \/ r \in chunks /\ r.ws = search'.ws
                          \/ r \in Held /\ search'.ws = search.ws
  PROVE  IndexInv'
<1>1. Keyed' /\ RowsAreSound'
  BY DEF IndexInv, Keyed, RowsAreSound
<1>2. ImportInv'
  BY ImportUnchanged DEF IndexInv, ImportInv
<1>3. RowsStay
  BY UnchangedTableStays
<1>4. ASSUME NEW r \in Held'
      PROVE  r.doc \in OwnedBy(search'.ws) /\ Cited(search'.ws, r.id)
  <2>1. CASE r \in chunks /\ r.ws = search'.ws
    BY <2>1, OwnRowsAreCited DEF IndexInv
  <2>2. CASE r \in Held /\ search'.ws = search.ws
    BY <2>2 DEF IndexInv, RowsHeldAreCited
  <2>3. QED
    BY <1>4, <2>1, <2>2
<1>5. \A ws, id : Cited(ws, id) => Cited(ws, id)'
  BY <1>3, CitedStays
<1>6. RowsHeldAreCited'
  BY <1>4, <1>5 DEF RowsHeldAreCited
<1>7. QED
  BY <1>1, <1>2, <1>6 DEF IndexInv, ImportInv

LEMMA CitesUnchanged ==
  ASSUME IndexInv, UNCHANGED <<chunks, revoked, cites>>
  PROVE  CitesAreCited'
  BY UnchangedTableStays, CitesStay DEF IndexInv

LEMMA SearchInv ==
  ASSUME IndexInv, NEW ws \in Workspaces, NEW asked \in Questions, Search(ws, asked)
  PROVE  IndexInv'
<1>1. \E pc : search' = [pc |-> pc, ws |-> ws, asked |-> asked,
                         vectors |-> {}, rows |-> {}, hits |-> {}]
  BY DEF Search, NotSearching
<1>2. SearchShape' /\ Held' = {}
  BY <1>1 DEF SearchShape, Held
<1>3. QED
  BY <1>2, QuestionSteps, CitesUnchanged DEF Search

LEMMA ReadVectorsInv ==
  ASSUME IndexInv, ReadVectors
  PROVE  IndexInv'
<1>1. search' = [pc |-> "chunks", ws |-> search.ws, asked |-> search.asked,
                 vectors |-> VectorsIn(search.ws), rows |-> search.rows, hits |-> search.hits]
  BY DEF ReadVectors, IndexInv, SearchShape
<1>2. SearchShape' /\ search'.ws = search.ws
  BY <1>1 DEF SearchShape
<1>3. Held' \subseteq VectorsIn(search.ws) \cup Held
  BY <1>1 DEF Held
<1>4. \A r \in VectorsIn(search.ws) : r \in chunks /\ r.ws = search.ws
  BY DEF VectorsIn, ChunksIn
<1>5. QED
  BY <1>2, <1>3, <1>4, QuestionSteps, CitesUnchanged DEF ReadVectors

LEMMA ReadChunksInv ==
  ASSUME IndexInv, ReadChunks
  PROVE  IndexInv'
<1> DEFINE found == ChunksIn(search.ws)
<1>1. \A r \in found : r \in chunks /\ r.ws = search.ws
  BY DEF ChunksIn
<1>2. CASE search.vectors = {}
  <2>1. search' = [pc |-> "score", ws |-> search.ws, asked |-> search.asked,
                   vectors |-> search.vectors, rows |-> found, hits |-> search.hits]
    BY <1>2 DEF ReadChunks, IndexInv, SearchShape
  <2>2. SearchShape' /\ search'.ws = search.ws
    BY <2>1 DEF SearchShape
  <2>3. Held' \subseteq found \cup Held
    BY <2>1 DEF Held
  <2>4. QED
    BY <1>1, <2>2, <2>3, QuestionSteps, CitesUnchanged DEF ReadChunks
<1>3. CASE search.vectors # {}
  <2>1. PICK hits : /\ hits = SemanticHits(found, search.vectors, search.asked)
                    /\ search' = [search EXCEPT !.pc = "found", !.vectors = {}, !.hits = hits]
    BY <1>3 DEF ReadChunks
  <2>2. search' = [pc |-> "found", ws |-> search.ws, asked |-> search.asked,
                   vectors |-> {}, rows |-> search.rows, hits |-> hits]
    BY <2>1 DEF IndexInv, SearchShape
  <2>3. SearchShape' /\ search'.ws = search.ws
    BY <2>2 DEF SearchShape
  <2>4. hits \subseteq found
    BY <2>1, SemanticHitsAmong
  <2>5. Held' \subseteq found \cup Held
    BY <2>2, <2>4 DEF Held
  <2>6. QED
    BY <1>1, <2>3, <2>5, QuestionSteps, CitesUnchanged DEF ReadChunks
<1>4. QED
  BY <1>2, <1>3

LEMMA ScoreChunksInv ==
  ASSUME IndexInv, ScoreChunks
  PROVE  IndexInv'
<1>1. PICK hits : /\ hits = KeywordHits(search.rows, search.asked)
                  /\ search' = [search EXCEPT !.pc = "found", !.rows = {}, !.hits = hits]
  BY DEF ScoreChunks
<1>2. search' = [pc |-> "found", ws |-> search.ws, asked |-> search.asked,
                 vectors |-> search.vectors, rows |-> {}, hits |-> hits]
  BY <1>1 DEF IndexInv, SearchShape
<1>3. SearchShape' /\ search'.ws = search.ws
  BY <1>2 DEF SearchShape
<1>4. hits \subseteq search.rows
  BY <1>1, KeywordHitsAmong
<1>5. Held' \subseteq Held
  BY <1>2, <1>4 DEF Held
<1>6. QED
  BY <1>3, <1>5, QuestionSteps, CitesUnchanged DEF ScoreChunks

\* A hit that is cited has a row, or its workspace has lost it by a revocation
\* or to another that shares the document.
LEMMA CiteInv ==
  ASSUME IndexInv, Cite
  PROVE  IndexInv'
<1>1. SearchShape' /\ Held' = {}
  BY DEF Cite, NotSearching, SearchShape, Held
<1>2. UNCHANGED <<chunks, kb, revoked>>
  BY DEF Cite
<1>3. CASE UNCHANGED cites
  BY <1>1, <1>2, <1>3, QuestionSteps, CitesUnchanged
<1>4. CASE \E r \in search.hits :
             cites' = cites \cup {[ws |-> search.ws, ref |-> Render(Ref(r)), of |-> r.text]}
  <2>1. PICK r \in search.hits :
          cites' = cites \cup {[ws |-> search.ws, ref |-> r.id, of |-> r.text]}
    BY <1>4 DEF Render, Ref
  <2>2. Cited(search.ws, r.id)
    BY DEF IndexInv, RowsHeldAreCited, Held
  <2>3. \A ws, id : Cited(ws, id) => Cited(ws, id)'
    BY <1>2, UnchangedTableStays, CitedStays
  <2>4. CitesAreCited'
    BY <2>1, <2>2, <2>3 DEF IndexInv, CitesAreCited
  <2>5. QED
    BY <1>1, <1>2, <2>4, QuestionSteps
<1>5. QED
  BY <1>3, <1>4 DEF Cite

LEMMA NextInv ==
  ASSUME IndexInv, [Next]_vars
  PROVE  IndexInv'
<1>1. CASE Importing
  BY <1>1, ImportInvHolds, ListInv, SkipFileInv, ReadFileInv, UpsertChunkInv, SourceReadInv,
     EmbedBatchInv, StoreVectorInv, StopInv
     DEF Importing
<1>2. CASE Answering
  BY <1>2, SearchInv, ReadVectorsInv, ReadChunksInv, ScoreChunksInv, CiteInv DEF Answering
<1>3. CASE \E ws \in Workspaces : Revoke(ws)
  BY <1>3, RevokeInv
<1>4. CASE \E doc \in Docs : Edit(doc)
  BY <1>4, EditInv
<1>5. CASE UNCHANGED vars
  <2>1. ImportInv'
    BY <1>5, ImportUnchanged DEF vars, IndexInv, ImportInv
  <2>2. QED
    BY <1>5, <2>1, TableUnchanged DEF vars
<1>6. QED
  BY <1>1, <1>2, <1>3, <1>4, <1>5 DEF Next

\* The table agrees at every moment with what the import and the question
\* still hold in memory, however their statements interleave.
THEOREM IndexInvariant == Spec => []IndexInv
<1>1. Init => IndexInv
  BY InitInv
<1>2. IndexInv /\ [Next]_vars => IndexInv'
  BY NextInv
<1>3. QED
  BY <1>1, <1>2, PTL DEF Spec

-----------------------------------------------------------------------------
(* What follows. *)

\* A question is only ever answered from documents of the asker's workspace,
\* whatever an import has replaced or moved meanwhile.
THEOREM SearchesKeepTheirScope == Spec => []ScopeHolds
<1>1. IndexInv => ScopeHolds
  BY DEF IndexInv, RowsHeldAreCited, Held, ScopeHolds
<1>2. QED
  BY <1>1, IndexInvariant, PTL

\* A row is never ranked by the vector of a text it no longer has: replacing
\* the text drops the vector, and a vector is stored only beside the text that
\* was sent.
THEOREM VectorsFollowTexts == Spec => []VectorsDescribeTheirText
<1>1. IndexInv => VectorsDescribeTheirText
  BY DEF IndexInv, RowsAreSound, VectorsDescribeTheirText
<1>2. QED
  BY <1>1, IndexInvariant, PTL

\* A citation has a row until its workspace is revoked or shares the document:
\* imports replace rows and delete none, so above all not those of a section
\* that its file still has.
THEOREM ImportsKeepCitations == Spec => []CitationsSurviveImports
<1>1. ASSUME IndexInv PROVE CitationsSurviveImports
  <2> SUFFICES ASSUME NEW c \in cites, c.ws \notin revoked,
                      \A ws \in Workspaces \ {c.ws} : c.ref[1] \notin OwnedBy(ws)
               PROVE  Stands(c)
    BY DEF CitationsSurviveImports
  <2>1. PICK r \in chunks : r.id = c.ref /\ r.ws = c.ws
    BY <1>1 DEF IndexInv, CitesAreCited, Cited, DocOf
  <2>2. {q \in ChunksIn(c.ws) : q.id = c.ref} # {}
    BY <2>1 DEF ChunksIn
  <2>3. Parse(c.ref) = [id |-> c.ref, hash |-> NoText]
    BY DEF Parse
  <2>4. Status(c.ws, Parse(c.ref)) = "ok"
    BY <2>2, <2>3 DEF Status
  <2>5. QED
    BY <2>4 DEF Stands
<1>2. QED
  BY <1>1, IndexInvariant, PTL

-----------------------------------------------------------------------------
(* A finished import is searchable in full.  A second invariant, on top of  *)
(* the first, follows every section from the file to its row and its vector. *)

\* Still to be written by the document's upserts.
Pending(chunk) == kb.pc = "upsert" /\ chunk \in kb.rows

\* Still to be embedded by the source the import is in.
Waits(r) ==
  \/ kb.pc \in {"file", "upsert"} /\ r.ws = Source.workspace
  \/ kb.pc = "embed" /\ r \in kb.rows \cup kb.window

\* The row of a chunk that was taken into a workspace.
Taken(r, chunk, ws) ==
  /\ r.id = chunk.id /\ r.ws = ws /\ r.text = chunk.text
  /\ Embedding /\ r.text # NoText /\ r.vector = NoVector => Waits(r)

EverySectionIsTaken ==
  \A doc \in DOMAIN report : \A chunk \in Chunks(doc, report[doc].lines) :
    Pending(chunk) \/ \E r \in chunks : Taken(r, chunk, report[doc].ws)

\* What is being written is what was reported.
WorkIsReported ==
  kb.pc = "upsert" => \A c \in kb.rows : c.doc \in DOMAIN report =>
    c \in Chunks(c.doc, report[c.doc].lines) /\ report[c.doc].ws = Source.workspace

ContentsStand ==
  /\ DOMAIN files = Docs /\ \A doc \in Docs : files[doc] \in Contents[doc]
  /\ \A doc \in DOMAIN report :
       doc \in Docs /\ \E content \in Contents[doc] : report[doc].lines = content.lines

NoVectorsWithoutEmbedding ==
  ~Embedding => kb.pc # "embed" /\ \A r \in chunks : r.vector = NoVector

TakenInv ==
  /\ IsFiniteSet(chunks) /\ ContentsStand /\ NoVectorsWithoutEmbedding
  /\ WorkIsReported /\ EverySectionIsTaken

\* A chunk's place names it, within a document and beyond.
LEMMA ChunkOfItsId ==
  ASSUME NEW doc, NEW lines, NEW c \in Chunks(doc, lines), NEW d \in Chunks(doc, lines),
         c.id = d.id
  PROVE  c = d
<1>1. PICK n \in Starts(lines) :
        c = [id |-> ChunkId(doc, lines, n), doc |-> doc, text |-> Text(lines, n)]
  BY DEF Chunks
<1>2. PICK m \in Starts(lines) :
        d = [id |-> ChunkId(doc, lines, m), doc |-> doc, text |-> Text(lines, m)]
  BY DEF Chunks
<1>3. <<doc, SectionPath(lines, n), n>> = <<doc, SectionPath(lines, m), m>>
  BY <1>1, <1>2 DEF ChunkId
<1>4. QED
  BY <1>1, <1>2, <1>3

LEMMA TakenInvInit ==
  ASSUME Init
  PROVE  TakenInv
<1>1. chunks = {} /\ report = <<>> /\ kb.pc = "idle"
  BY DEF Init, NotImporting
<1>2. DOMAIN report = {}
  BY <1>1
<1>3. ContentsStand
  BY <1>2 DEF Init, ContentsStand
<1>4. QED
  BY <1>1, <1>2, <1>3, FS_EmptySet
     DEF TakenInv, NoVectorsWithoutEmbedding, WorkIsReported, EverySectionIsTaken

\* A step that leaves the table and the report: what is pending stays so, and
\* what waits for its vector still does.
LEMMA TakenStays ==
  ASSUME EverySectionIsTaken, UNCHANGED <<chunks, report>>,
         \A c : Pending(c) => Pending(c)',
         \A r \in chunks : Embedding /\ r.vector = NoVector /\ Waits(r) => Waits(r)'
  PROVE  EverySectionIsTaken'
<1> SUFFICES ASSUME NEW doc \in DOMAIN report, NEW chunk \in Chunks(doc, report[doc].lines)
             PROVE  Pending(chunk)' \/ \E r \in chunks : Taken(r, chunk, report[doc].ws)'
  BY DEF EverySectionIsTaken
<1>1. CASE Pending(chunk)
  BY <1>1
<1>2. CASE \E r \in chunks : Taken(r, chunk, report[doc].ws)
  <2>1. PICK r \in chunks : Taken(r, chunk, report[doc].ws)
    BY <1>2
  <2>2. Taken(r, chunk, report[doc].ws)'
    BY <2>1 DEF Taken
  <2>3. QED
    BY <2>2
<1>3. QED
  BY <1>1, <1>2 DEF EverySectionIsTaken

\* A step of neither the import nor the table.
LEMMA TakenUnchanged ==
  ASSUME TakenInv, UNCHANGED <<chunks, report, kb>>, ContentsStand'
  PROVE  TakenInv'
<1>1. Source' = Source
  BY DEF Source
<1>2. \A c : Pending(c)' = Pending(c)
  BY DEF Pending
<1>3. \A r : Waits(r)' = Waits(r)
  BY <1>1 DEF Waits
<1>4. EverySectionIsTaken'
  BY <1>2, <1>3, TakenStays DEF TakenInv
<1>5. WorkIsReported' /\ NoVectorsWithoutEmbedding'
  BY <1>1 DEF TakenInv, WorkIsReported, NoVectorsWithoutEmbedding
<1>6. QED
  BY <1>4, <1>5 DEF TakenInv

\* A step of the import that leaves the table, the report and the files, and
\* writes nothing of a document.
LEMMA TakenByReading ==
  ASSUME TakenInv, UNCHANGED <<chunks, report, files>>, kb'.pc # "upsert",
         ~Embedding => kb'.pc # "embed",
         \A c : ~Pending(c),
         \A r \in chunks : Embedding /\ r.vector = NoVector /\ Waits(r) => Waits(r)'
  PROVE  TakenInv'
<1>1. EverySectionIsTaken'
  BY TakenStays DEF TakenInv
<1>2. ContentsStand'
  BY DEF TakenInv, ContentsStand
<1>3. WorkIsReported' /\ NoVectorsWithoutEmbedding'
  BY DEF TakenInv, WorkIsReported, NoVectorsWithoutEmbedding
<1>4. QED
  BY <1>1, <1>2, <1>3 DEF TakenInv

\* An import that starts, or ends early, reports nothing.
LEMMA TakenByForgetting ==
  ASSUME TakenInv, UNCHANGED <<chunks, files>>, report' = <<>>, kb'.pc \in {"idle", "list"}
  PROVE  TakenInv'
<1>1. DOMAIN report' = {}
  OBVIOUS
<1>2. QED
  BY <1>1 DEF TakenInv, ContentsStand, NoVectorsWithoutEmbedding, WorkIsReported,
              EverySectionIsTaken

LEMMA ListTakes ==
  ASSUME IndexInv, TakenInv, List
  PROVE  TakenInv'
<1>1. kb' = [pc |-> "file", source |-> kb.source,
             todo |-> {d \in Source.docs : files[d] # Gone},
             rows |-> kb.rows, window |-> kb.window]
  BY DEF List, IndexInv, ImportShape
<1>2. kb.pc = "list" /\ UNCHANGED <<chunks, report, files>>
  BY DEF List
<1>3. (\A c : ~Pending(c)) /\ (\A r : ~Waits(r))
  BY <1>2 DEF Pending, Waits
<1>4. QED
  BY <1>1, <1>2, <1>3, TakenByReading

LEMMA SkipFileTakes ==
  ASSUME IndexInv, TakenInv, SkipFile
  PROVE  TakenInv'
<1>1. PICK doc \in kb.todo : kb' = [kb EXCEPT !.todo = @ \ {doc}]
  BY DEF SkipFile
<1>2. kb' = [pc |-> "file", source |-> kb.source, todo |-> kb.todo \ {doc},
             rows |-> kb.rows, window |-> kb.window]
  BY <1>1 DEF SkipFile, IndexInv, ImportShape
<1>3. kb.pc = "file" /\ UNCHANGED <<chunks, report, files>>
  BY DEF SkipFile
<1>4. \A c : ~Pending(c)
  BY <1>3 DEF Pending
<1>5. \A r : Waits(r) => Waits(r)'
  BY <1>2, <1>3 DEF Waits, Source
<1>6. QED
  BY <1>2, <1>3, <1>4, <1>5, TakenByReading

\* What was read is pending, chunk by chunk, and reported where it goes.
LEMMA ReadFileTakes ==
  ASSUME IndexInv, TakenInv, ReadFile
  PROVE  TakenInv'
<1>1. PICK doc \in kb.todo :
        /\ kb' = [kb EXCEPT !.pc = "upsert", !.todo = @ \ {doc},
                            !.rows = Chunks(doc, files[doc].lines)]
        /\ report' = Took(doc)
  BY DEF ReadFile
<1> DEFINE new == Chunks(doc, files[doc].lines)
           entry == [ws |-> Source.workspace, lines |-> files[doc].lines]
<1>2. kb' = [pc |-> "upsert", source |-> kb.source, todo |-> kb.todo \ {doc},
             rows |-> new, window |-> kb.window]
  BY <1>1 DEF IndexInv, ImportShape
<1>3. report' = [d \in DOMAIN report \cup {doc} |-> IF d = doc THEN entry ELSE report[d]]
  BY <1>1 DEF Took
<1>4. kb.pc = "file" /\ UNCHANGED <<chunks, files>> /\ Source' = Source
  BY <1>2 DEF ReadFile, Source
<1>5. doc \in Docs
  <2>1. kb.todo \subseteq Source.docs
    BY <1>4 DEF IndexInv, WorkIsOfTheSource
  <2>2. kb.source \in DOMAIN Sources
    BY DEF IndexInv, ImportShape
  <2>3. Sources[kb.source] \in [workspace : Workspaces, docs : SUBSET Docs]
    <3> DEFINE Rs == [workspace : Workspaces, docs : SUBSET Docs]
    <3>1. Sources \in Seq(Rs)
      BY IndexAssumption
    <3> HIDE DEF Rs
    <3>2. Sources[kb.source] \in Rs
      BY <2>2, <3>1
    <3>3. QED
      BY <3>2 DEF Rs
  <2>4. QED
    BY <2>1, <2>3 DEF Source
<1>6. /\ report'[doc] = entry
      /\ \A d \in DOMAIN report \ {doc} : report'[d] = report[d]
      /\ DOMAIN report' = DOMAIN report \cup {doc}
  BY <1>3
<1>7. ContentsStand'
  BY <1>4, <1>5, <1>6 DEF TakenInv, ContentsStand
<1>8. NoVectorsWithoutEmbedding' /\ IsFiniteSet(chunks)'
  BY <1>2, <1>4 DEF TakenInv, NoVectorsWithoutEmbedding
<1>9. WorkIsReported'
  <2>1. \A c \in new : c.doc = doc
    BY ChunkOfItsDoc
  <2>2. QED
    BY <1>2, <1>4, <1>6, <2>1 DEF WorkIsReported
<1>10. EverySectionIsTaken'
  <2> SUFFICES ASSUME NEW d \in DOMAIN report', NEW chunk \in Chunks(d, report'[d].lines),
                      NEW ws, ws = report'[d].ws
               PROVE  Pending(chunk)' \/ \E r \in chunks : Taken(r, chunk, ws)'
    BY <1>4 DEF EverySectionIsTaken, Taken
  <2>1. CASE d = doc
    BY <1>2, <1>6, <2>1 DEF Pending
  <2>2. CASE d # doc
    <3>1. PICK r \in chunks : Taken(r, chunk, report[d].ws)
      BY <1>4, <1>6, <2>2 DEF TakenInv, EverySectionIsTaken, Pending
    <3>2. Waits(r) => Waits(r)'
      BY <1>2, <1>4 DEF Waits
    <3>3. Taken(r, chunk, ws)'
      BY <1>6, <2>2, <3>1, <3>2 DEF Taken
    <3>4. QED
      BY <3>3
  <2>3. QED
    BY <2>1, <2>2
<1>11. QED
  BY <1>7, <1>8, <1>9, <1>10 DEF TakenInv

\* A chunk leaves what is pending exactly when its row is written; the row
\* waits for its vector, and no other row of a reported section is touched.
LEMMA UpsertChunkTakes ==
  ASSUME IndexInv, TakenInv, UpsertChunk
  PROVE  TakenInv'
<1>1. CASE kb.rows = {}
  <2>1. kb' = [pc |-> "file", source |-> kb.source, todo |-> kb.todo,
               rows |-> kb.rows, window |-> kb.window]
    BY <1>1 DEF UpsertChunk, IndexInv, ImportShape
  <2>2. kb.pc = "upsert" /\ UNCHANGED <<chunks, report, files>>
    BY <1>1 DEF UpsertChunk
  <2>3. \A c : ~Pending(c)
    BY <1>1 DEF Pending
  <2>4. \A r : Waits(r) => Waits(r)'
    BY <2>1, <2>2 DEF Waits, Source
  <2>5. QED
    BY <2>1, <2>2, <2>3, <2>4, TakenByReading
<1>2. CASE kb.rows # {}
  <2> DEFINE ws == Source.workspace
  <2>1. PICK chunk \in kb.rows :
          chunks' = Upsert(chunk, ws) /\ kb' = [kb EXCEPT !.rows = @ \ {chunk}]
    BY <1>2 DEF UpsertChunk, FirstOf
  <2>1a. PICK new : new = RowOf(chunk, ws, Behind(chunks \ RowsWith(chunk.id)))
    OBVIOUS
  <2>2. chunks' = {r \in chunks : r.id # chunk.id} \cup {new}
    BY <2>1, <2>1a DEF Upsert, RowsWith, RowOf, Row
  <2>3. /\ new.id = chunk.id /\ new.ws = ws /\ new.text = chunk.text
        /\ new.vector = NoVector
    BY <2>1a DEF RowOf
  <2>4. kb' = [pc |-> "upsert", source |-> kb.source, todo |-> kb.todo,
               rows |-> kb.rows \ {chunk}, window |-> kb.window]
    BY <2>1 DEF UpsertChunk, IndexInv, ImportShape
  <2>5. kb.pc = "upsert" /\ UNCHANGED <<report, files>> /\ Source' = Source
    BY <2>4 DEF UpsertChunk, Source
  <2>6. IsFiniteSet(chunks')
    <3>1. IsFiniteSet({r \in chunks : r.id # chunk.id})
      BY FS_Subset DEF TakenInv
    <3>2. QED
      BY <2>2, <3>1, FS_AddElement
  <2>7. ContentsStand' /\ NoVectorsWithoutEmbedding'
    BY <2>2, <2>3, <2>4, <2>5 DEF TakenInv, ContentsStand, NoVectorsWithoutEmbedding
  <2>8. WorkIsReported'
    BY <2>4, <2>5 DEF TakenInv, WorkIsReported
  <2>9. EverySectionIsTaken'
    <3> SUFFICES ASSUME NEW d \in DOMAIN report, NEW c \in Chunks(d, report[d].lines)
                 PROVE  Pending(c)' \/ \E r \in chunks' : Taken(r, c, report[d].ws)'
      BY <2>5 DEF EverySectionIsTaken
    <3>1. CASE c = chunk
      <4>1. c.doc = d
        BY ChunkOfItsDoc
      <4>2. report[d].ws = ws
        BY <2>5, <3>1, <4>1 DEF TakenInv, WorkIsReported
      <4>3. Waits(new)'
        BY <2>3, <2>4, <2>5 DEF Waits
      <4>4. Taken(new, c, report[d].ws)'
        BY <2>3, <2>5, <3>1, <4>2, <4>3 DEF Taken
      <4>5. QED
        BY <2>2, <4>4
    <3>2. CASE c # chunk /\ Pending(c)
      BY <2>4, <3>2 DEF Pending
    <3>3. CASE c # chunk /\ ~Pending(c)
      <4>1. PICK r \in chunks : Taken(r, c, report[d].ws)
        BY <3>3 DEF TakenInv, EverySectionIsTaken
      <4>2. c.id # chunk.id
        <5>1. ASSUME c.id = chunk.id PROVE FALSE
          <6>1. c.doc = d /\ DocOf(c.id) = d
            BY ChunkOfItsDoc
          <6>2. DocOf(chunk.id) = chunk.doc
            BY <2>5 DEF IndexInv, WorkIsOfTheSource
          <6>3. chunk.doc = d
            BY <5>1, <6>1, <6>2
          <6>4. chunk \in Chunks(d, report[d].lines)
            BY <2>5, <6>3 DEF TakenInv, WorkIsReported
          <6>5. QED
            BY <3>3, <5>1, <6>4, ChunkOfItsId
        <5>2. QED
          BY <5>1
      <4>3. r \in chunks'
        BY <2>2, <4>1, <4>2 DEF Taken
      <4>4. Waits(r) => Waits(r)'
        BY <2>4, <2>5 DEF Waits
      <4>5. Taken(r, c, report[d].ws)'
        BY <2>5, <4>1, <4>4 DEF Taken
      <4>6. QED
        BY <4>3, <4>5
    <3>4. QED
      BY <3>1, <3>2, <3>3
  <2>10. QED
    BY <2>6, <2>7, <2>8, <2>9 DEF TakenInv
<1>3. QED
  BY <1>1, <1>2

\* The next source begins when nothing waits any more.
LEMMA NextSourceTakes ==
  ASSUME TakenInv, NextSource, UNCHANGED <<chunks, report, files>>, kb.pc # "upsert",
         \A r \in chunks : Embedding /\ r.vector = NoVector => ~Waits(r)
  PROVE  TakenInv'
<1>1. kb'.pc \in {"idle", "list"}
  BY DEF NextSource, NotImporting
<1>2. \A c : ~Pending(c)
  BY DEF Pending
<1>3. QED
  BY <1>1, <1>2, TakenByReading

LEMMA SourceReadTakes ==
  ASSUME IndexInv, TakenInv, SourceRead
  PROVE  TakenInv'
<1>1. kb.pc = "file" /\ UNCHANGED <<chunks, report, files>>
  BY DEF SourceRead
<1>2. CASE ~Embedding
  BY <1>1, <1>2, NextSourceTakes DEF SourceRead
<1>3. CASE Embedding
  <2> DEFINE missing == {r \in ChunksIn(Source.workspace) : r.vector = NoVector}
  <2>1. kb' = [kb EXCEPT !.pc = "embed", !.rows = missing]
    BY <1>3 DEF SourceRead
  <2>2. kb' = [pc |-> "embed", source |-> kb.source, todo |-> kb.todo,
               rows |-> missing, window |-> kb.window]
    BY <2>1 DEF IndexInv, ImportShape
  <2>3. \A c : ~Pending(c)
    BY <1>1 DEF Pending
  <2>4. ASSUME NEW r \in chunks, r.vector = NoVector, Waits(r)
        PROVE  Waits(r)'
    <3>1. r \in missing
      BY <1>1, <2>4 DEF Waits, ChunksIn
    <3>2. QED
      BY <2>2, <3>1 DEF Waits
  <2>5. kb'.pc = "embed"
    BY <2>2
  <2> HIDE DEF missing
  <2>6. QED
    BY <1>1, <1>3, <2>3, <2>4, <2>5, TakenByReading
<1>4. QED
  BY <1>2, <1>3

LEMMA EmbedBatchTakes ==
  ASSUME IndexInv, TakenInv, EmbedBatch
  PROVE  TakenInv'
<1>1. kb.pc = "embed" /\ kb.window = {} /\ UNCHANGED <<chunks, report, files>>
  BY DEF EmbedBatch
<1>2. CASE kb.rows = {}
  <2>1. \A r : ~Waits(r)
    BY <1>1, <1>2 DEF Waits
  <2>2. QED
    BY <1>1, <1>2, <2>1, NextSourceTakes DEF EmbedBatch
<1>3. CASE kb.rows # {}
  <2>1. PICK batch \in Batches(kb.rows) :
          kb' = [kb EXCEPT !.window = batch, !.rows = @ \ batch]
    BY <1>3 DEF EmbedBatch
  <2>2. kb' = [pc |-> "embed", source |-> kb.source, todo |-> kb.todo,
               rows |-> kb.rows \ batch, window |-> batch]
    BY <1>1, <2>1 DEF IndexInv, ImportShape
  <2>3. \A r : Waits(r) => Waits(r)'
    BY <1>1, <2>2 DEF Waits
  <2>4. \A c : ~Pending(c)
    BY <1>1 DEF Pending
  <2>5. Embedding
    BY <1>1 DEF TakenInv, NoVectorsWithoutEmbedding
  <2>6. QED
    BY <1>1, <2>2, <2>3, <2>4, <2>5, TakenByReading
<1>4. QED
  BY <1>2, <1>3

\* A row that no longer waits has the vector of its text.
LEMMA StoreVectorTakes ==
  ASSUME IndexInv, TakenInv, StoreVector
  PROVE  TakenInv'
<1>1. PICK row \in kb.window :
        chunks' = WithVector(row) /\ kb' = [kb EXCEPT !.window = @ \ {row}]
  BY DEF StoreVector
<1>2. kb' = [pc |-> "embed", source |-> kb.source, todo |-> kb.todo,
             rows |-> kb.rows, window |-> kb.window \ {row}]
  BY <1>1 DEF StoreVector, IndexInv, ImportShape
<1>3. kb.pc = "embed" /\ UNCHANGED <<report, files>>
  BY DEF StoreVector
<1>4. Embedding
  BY <1>3 DEF TakenInv, NoVectorsWithoutEmbedding
<1> DEFINE Given(r) == [r EXCEPT !.vector = row.text]
<1>5. chunks' = {r \in chunks : r.id # row.id} \cup {Given(r) : r \in RowsWith(row.id)}
  BY <1>1 DEF WithVector, RowsWith
<1>6. IsFiniteSet(chunks')
  <2>1. IsFiniteSet({r \in chunks : r.id # row.id})
    BY FS_Subset DEF TakenInv
  <2>2. CASE RowsWith(row.id) = {}
    BY <1>5, <2>1, <2>2
  <2>3. CASE RowsWith(row.id) # {}
    <3>1. PICK r \in RowsWith(row.id) : TRUE
      BY <2>3
    <3>2. RowsWith(row.id) = {r}
      BY <3>1 DEF RowsWith, IndexInv, Keyed
    <3>3. chunks' = {q \in chunks : q.id # row.id} \cup {Given(r)}
      BY <1>5, <3>2
    <3> HIDE DEF Given
    <3>4. QED
      BY <2>1, <3>3, FS_AddElement
  <2>4. QED
    BY <2>2, <2>3
<1>7. ContentsStand' /\ NoVectorsWithoutEmbedding'
  BY <1>2, <1>3, <1>4 DEF TakenInv, ContentsStand, NoVectorsWithoutEmbedding
<1>8. WorkIsReported'
  BY <1>2 DEF WorkIsReported
<1>9. EverySectionIsTaken'
  <2> SUFFICES ASSUME NEW d \in DOMAIN report, NEW c \in Chunks(d, report[d].lines)
               PROVE  \E r \in chunks' : Taken(r, c, report[d].ws)'
    BY <1>3 DEF EverySectionIsTaken
  <2>1. PICK r \in chunks : Taken(r, c, report[d].ws)
    BY <1>3 DEF TakenInv, EverySectionIsTaken, Pending
  <2>2. CASE r.id # row.id
    <3>1. r \in chunks'
      BY <1>5, <2>2
    <3>2. r \in kb.rows \cup kb.window => r \in kb'.rows \cup kb'.window
      BY <1>2, <2>2
    <3>3. Waits(r) => Waits(r)'
      BY <1>2, <1>3, <3>2 DEF Waits
    <3>4. Taken(r, c, report[d].ws)'
      BY <1>3, <2>1, <3>3 DEF Taken
    <3>5. QED
      BY <3>1, <3>4
  <2>3. CASE r.id = row.id
    <3>1. IsRow(r) /\ r.text = row.text
      BY <1>3, <2>3 DEF IndexInv, RowsAreSound, TextsStandWhileEmbedded
    <3>2. Given(r) = [id |-> r.id, doc |-> r.doc, ws |-> r.ws, text |-> r.text, vector |-> r.text,
              at |-> r.at]
      BY <3>1 DEF IsRow
    <3>3. Given(r) \in chunks'
      BY <1>5, <2>3 DEF RowsWith
    <3> DEFINE q == Given(r)
    <3>4. q.id = r.id /\ q.ws = r.ws /\ q.text = r.text /\ q.vector = r.text
      BY <3>2
    <3> HIDE DEF q
    <3>5. Taken(q, c, report[d].ws)'
      BY <1>3, <2>1, <3>4 DEF Taken, NoVector
    <3>6. QED
      BY <3>3, <3>5 DEF q
  <2>4. QED
    BY <2>2, <2>3
<1>10. QED
  BY <1>6, <1>7, <1>8, <1>9 DEF TakenInv

\* A workspace that is revoked takes its sections out of the report.
LEMMA RevokeTakes ==
  ASSUME IndexInv, TakenInv, NEW ws \in Workspaces, Revoke(ws)
  PROVE  TakenInv'
<1>1. /\ chunks' = {r \in chunks : r.ws # ws} /\ UNCHANGED <<files, kb>>
      /\ report' = [d \in {e \in DOMAIN report : report[e].ws # ws} |-> report[d]]
  BY DEF Revoke, ChunksIn
<1>2. /\ DOMAIN report' = {e \in DOMAIN report : report[e].ws # ws}
      /\ \A d \in DOMAIN report' : report'[d] = report[d]
  BY <1>1
<1>3. Source' = Source
  BY <1>1 DEF Source
<1>4. IsFiniteSet(chunks')
  BY <1>1, FS_Subset DEF TakenInv
<1>5. ContentsStand' /\ NoVectorsWithoutEmbedding'
  BY <1>1, <1>2 DEF TakenInv, ContentsStand, NoVectorsWithoutEmbedding
<1>6. WorkIsReported'
  BY <1>1, <1>2, <1>3 DEF TakenInv, WorkIsReported
<1>7. EverySectionIsTaken'
  <2> SUFFICES ASSUME NEW d \in DOMAIN report', NEW c \in Chunks(d, report[d].lines),
                      NEW home, home = report[d].ws
               PROVE  Pending(c)' \/ \E r \in chunks' : Taken(r, c, home)'
    BY <1>2 DEF EverySectionIsTaken, Taken
  <2>1. Pending(c) => Pending(c)'
    BY <1>1 DEF Pending
  <2>2. ASSUME ~Pending(c) PROVE \E r \in chunks' : Taken(r, c, home)'
    <3>1. PICK r \in chunks : Taken(r, c, home)
      BY <1>2, <2>2 DEF TakenInv, EverySectionIsTaken
    <3>2. r \in chunks'
      BY <1>1, <1>2, <3>1 DEF Taken
    <3>3. Waits(r) => Waits(r)'
      BY <1>1, <1>3 DEF Waits
    <3>4. Taken(r, c, home)'
      BY <3>1, <3>3 DEF Taken
    <3>5. QED
      BY <3>2, <3>4
  <2>3. QED
    BY <2>1, <2>2
<1>8. QED
  BY <1>4, <1>5, <1>6, <1>7 DEF TakenInv

LEMMA EditTakes ==
  ASSUME TakenInv, NEW doc \in Docs, Edit(doc)
  PROVE  TakenInv'
<1>1. PICK content \in Contents[doc] : files' = [files EXCEPT ![doc] = content]
  BY DEF Edit
<1>2. UNCHANGED <<chunks, kb, report>>
  BY DEF Edit
<1>3. ContentsStand'
  BY <1>1, <1>2 DEF TakenInv, ContentsStand
<1>4. QED
  BY <1>2, <1>3, TakenUnchanged

LEMMA NextTakes ==
  ASSUME IndexInv, TakenInv, [Next]_vars
  PROVE  TakenInv'
<1>1. CASE Import \/ Stop
  <2>1. UNCHANGED <<chunks, files>> /\ report' = <<>> /\ kb'.pc \in {"idle", "list"}
    <3>1. CASE Import
      BY <3>1 DEF Import, NotImporting
    <3>2. CASE Stop
      BY <3>2 DEF Stop, NotImporting
    <3>3. QED
      BY <1>1, <3>1, <3>2
  <2>2. QED
    BY <2>1, TakenByForgetting
<1>2. CASE List \/ SkipFile \/ ReadFile \/ UpsertChunk \/ SourceRead \/ EmbedBatch \/ StoreVector
  BY <1>2, ListTakes, SkipFileTakes, ReadFileTakes, UpsertChunkTakes, SourceReadTakes,
     EmbedBatchTakes, StoreVectorTakes
<1>3. CASE Answering \/ UNCHANGED vars
  <2>1. UNCHANGED <<files, chunks, report, kb>>
    BY <1>3 DEF Answering, Search, ReadVectors, ReadChunks, ScoreChunks, Cite, vars
  <2>2. ContentsStand'
    BY <2>1 DEF TakenInv, ContentsStand
  <2>3. QED
    BY <2>1, <2>2, TakenUnchanged
<1>4. CASE \E ws \in Workspaces : Revoke(ws)
  BY <1>4, RevokeTakes
<1>5. CASE \E doc \in Docs : Edit(doc)
  BY <1>5, EditTakes
<1>6. QED
  BY <1>1, <1>2, <1>3, <1>4, <1>5 DEF Next, Importing

\* From the file to its row and its vector, no section of a document that was
\* reported is ever dropped on the way.
THEOREM SectionsAreTaken == Spec => []TakenInv
<1>1. Init => TakenInv
  BY TakenInvInit
<1>2. IndexInv /\ TakenInv /\ [Next]_vars => TakenInv'
  BY NextTakes
<1>3. QED
  BY <1>1, <1>2, IndexInvariant, PTL DEF Spec

-----------------------------------------------------------------------------
(* A row is found by its own words. *)

LEMMA ImageIsFinite ==
  ASSUME NEW S, IsFiniteSet(S), NEW g
  PROVE  IsFiniteSet({g[x] : x \in S})
<1> DEFINE f == [x \in S |-> g[x]]
           T == {g[x] : x \in S}
<1>1. f \in Surjection(S, T)
  BY DEF Surjection
<1>2. QED
  BY <1>1, FS_Surjection

LEMMA ScoreFacts ==
  ASSUME NEW asked, IsFiniteSet(asked), NEW text
  PROVE  Score(asked, text) \in 0..Cardinality(asked)
<1>1. asked \cap Tokens(text) \in SUBSET asked
  OBVIOUS
<1>2. QED
  BY <1>1, FS_Subset, FS_CardinalityType DEF Score

ByOwnText(rows, asked) == Best(Matches({Match(q, q.text, asked) : q \in rows}))

\* Every row ranked by its own text, a row that shares enough words is among the
\* best, or `Limit` others share as many.
LEMMA FoundOrOutranked ==
  ASSUME NEW rows, IsFiniteSet(rows), NEW r \in rows, NEW asked, IsFiniteSet(asked),
         Score(asked, r.text) >= MinScore
  PROVE  \/ r \in ByOwnText(rows, asked)
         \/ Limit <= Cardinality({q \in rows \ {r} : Score(asked, q.text) >= Score(asked, r.text)})
<1> DEFINE found == {Match(q, q.text, asked) : q \in rows}
           own == Match(r, r.text, asked)
           others == {q \in rows \ {r} : Score(asked, q.text) >= Score(asked, r.text)}
           g == [q \in others |-> Match(q, q.text, asked)]
           ahead == Ahead(Matches(found), own)
           before == {q \in others : g[q] \in ahead}
<1>1. own.row = r /\ own.score = Score(asked, r.text) /\ own \in Matches(found)
  BY DEF Match, Matches
<1>2. \A q \in rows : Score(asked, q.text) \in Nat
  BY ScoreFacts, FS_CardinalityType
<1>3. ASSUME NEW m \in ahead
      PROVE  \E q \in before : m = g[q]
  <2>1. m \in Matches(found) /\ m # own /\ (m.score > own.score \/ m.score = own.score)
    BY DEF Ahead
  <2>2. PICK q \in rows : m = Match(q, q.text, asked)
    BY <2>1 DEF Matches
  <2>3. m.score = Score(asked, q.text) /\ q # r
    BY <2>1, <2>2 DEF Match
  <2>4. Score(asked, q.text) >= Score(asked, r.text)
    BY <1>1, <1>2, <2>1, <2>3
  <2>5. q \in others /\ g[q] = m
    BY <2>2, <2>3, <2>4
  <2>6. QED
    BY <2>5
<1>4. IsFiniteSet(others)
  BY FS_Subset
<1>5. IsFiniteSet(before) /\ Cardinality(before) <= Cardinality(others)
  BY <1>4, FS_Subset
<1>6. IsFiniteSet(ahead) /\ Cardinality(ahead) <= Cardinality(before)
  <2> DEFINE f == [q \in before |-> g[q]]
  <2>1. f \in Surjection(before, ahead)
    <3>1. \A q \in before : g[q] \in ahead
      OBVIOUS
    <3> HIDE DEF before, ahead, g
    <3>2. QED
      BY <1>3, <3>1 DEF Surjection
  <2> HIDE DEF f, before, ahead
  <2>2. QED
    BY <1>5, <2>1, FS_Surjection
<1>7. CASE Cardinality(ahead) < Limit
  <2>1. r \in Best(Matches(found))
    BY <1>1, <1>7 DEF Best
  <2>2. QED
    BY <2>1 DEF ByOwnText
<1>8. CASE ~(Cardinality(ahead) < Limit)
  <2>1. Cardinality(ahead) \in Nat /\ Cardinality(before) \in Nat /\ Cardinality(others) \in Nat
    BY <1>4, <1>5, <1>6, FS_CardinalityType
  <2>2. Limit \in Nat
    BY IndexAssumption
  <2> HIDE DEF ahead, before, others
  <2>3. Limit <= Cardinality(others)
    BY <1>5, <1>6, <1>8, <2>1, <2>2
  <2>4. QED
    BY <2>3 DEF others
<1>9. QED
  BY <1>7, <1>8

\* What a search compares a row with, when each id names one row.
LEMMA KeywordHitsOf ==
  ASSUME Keyed, NEW ws, NEW asked
  PROVE  KeywordHits(ChunksIn(ws), asked) =
           ByOwnText(ChunksIn(ws), asked)
<1>1. \A q \in ChunksIn(ws) : {c \in ChunksIn(q.ws) : c.id = q.id} = {q}
  BY DEF Keyed, ChunksIn
<1>2. UNION {{Match(q, n.text, asked) : n \in {c \in ChunksIn(q.ws) : c.id = q.id}} : q \in ChunksIn(ws)}
        = {Match(q, q.text, asked) : q \in ChunksIn(ws)}
  BY <1>1
<1>3. QED
  BY <1>2 DEF KeywordHits, ByOwnText

LEMMA SemanticHitsOf ==
  ASSUME Keyed, VectorsDescribeTheirText, NEW ws, NEW asked
  PROVE  SemanticHits(ChunksIn(ws), VectorsIn(ws), asked) =
           ByOwnText(VectorsIn(ws), asked)
<1>1. \A q \in ChunksIn(ws), v \in VectorsIn(ws) : v.id = q.id => v = q /\ v.vector = v.text
  BY DEF Keyed, VectorsDescribeTheirText, ChunksIn, VectorsIn
<1>2. VectorsIn(ws) \subseteq ChunksIn(ws)
  BY DEF VectorsIn
<1>3. UNION {{Match(q, v.vector, asked) : v \in {w \in VectorsIn(ws) : w.id = q.id}} : q \in ChunksIn(ws)}
        = {Match(q, q.text, asked) : q \in VectorsIn(ws)}
  BY <1>1, <1>2
<1>4. QED
  BY <1>3 DEF SemanticHits, ByOwnText

LEMMA RangeIsFinite ==
  ASSUME NEW T, NEW s \in Seq(T)
  PROVE  IsFiniteSet(ToSet(s))
<1>1. Len(s) \in Nat /\ DOMAIN s = 1..Len(s)
  OBVIOUS
<1>2. IsFiniteSet(1..Len(s))
  BY <1>1, FS_Interval
<1>3. ToSet(s) = {s[i] : i \in 1..Len(s)}
  BY <1>1 DEF ToSet
<1>4. QED
  BY <1>2, <1>3, ImageIsFinite

\* The words of a chunk are finitely many.
LEMMA TokensAreFinite ==
  ASSUME NEW lines, NEW n \in DOMAIN lines,
         lines \in Seq(ToSet(lines)),
         \A line \in ToSet(lines) : line.words \in Seq(ToSet(line.words))
  PROVE  IsFiniteSet(Tokens(Text(lines, n)))
<1> DEFINE W == UNION {ToSet(line.words) : line \in ToSet(lines)}
           numbers == Body(lines, n)
           parts == [i \in DOMAIN lines |-> IF i \in numbers THEN lines[i].words ELSE <<>>]
<1>1. DOMAIN lines = 1..Len(lines) /\ Len(lines) \in Nat
  OBVIOUS
<1>2. ASSUME NEW line \in ToSet(lines) PROVE line.words \in Seq(W)
  <2>1. line.words \in Seq(ToSet(line.words)) /\ ToSet(line.words) \subseteq W
    OBVIOUS
  <2> HIDE DEF W
  <2>2. QED
    BY <2>1
<1>3. \A i \in DOMAIN lines : lines[i] \in ToSet(lines)
  BY DEF ToSet
<1> HIDE DEF W
<1>4. parts \in Seq(Seq(W))
  <2>1. \A i \in DOMAIN lines : (IF i \in numbers THEN lines[i].words ELSE <<>>) \in Seq(W)
    <3> HIDE DEF numbers
    <3>1. QED
      BY <1>2, <1>3
  <2> HIDE DEF numbers
  <2>2. parts \in [1..Len(lines) -> Seq(W)]
    BY <1>1, <2>1
  <2>3. QED
    BY <1>1, <2>2
<1>5. FlattenSeq(parts) \in Seq(W)
  <2> HIDE DEF parts
  <2>1. QED
    BY <1>4, FlattenFacts
<1>6. WordsOf(lines, Body(lines, n)) \in Seq(W)
  BY <1>5 DEF WordsOf
<1>7. Text(lines, n).heading \in Seq(W) /\ Text(lines, n).body \in Seq(W)
  BY <1>2, <1>3, <1>6 DEF Text
<1>8. IsFiniteSet(ToSet(Text(lines, n).heading)) /\ IsFiniteSet(ToSet(Text(lines, n).body))
  BY <1>7, RangeIsFinite
<1>9. QED
  BY <1>8, FS_Union DEF Tokens

\* Every section the last import took in is in the answer to every question that
\* shares enough words with it, or outranked by `Limit` other rows, once the
\* command has finished: whatever was edited, stopped or revoked before it or
\* meanwhile, in whatever batches the vectors were computed.
THEOREM FinishedImportsAreFound == Spec => []FinishedImportsAreSearchable
<1>1. ASSUME IndexInv, TakenInv PROVE FinishedImportsAreSearchable
  <2> SUFFICES ASSUME kb.pc = "idle", NEW doc \in DOMAIN report,
                      NEW chunk \in Chunks(doc, report[doc].lines),
                      NEW ws, ws = report[doc].ws,
                      NEW asked \in Questions \cup {Tokens(chunk.text)},
                      Score(asked, chunk.text) >= MinScore
               PROVE  \/ \E r \in Hits(ws, asked) : r.id = chunk.id /\ r.text = chunk.text
                      \/ Limit <= Cardinality(
                           {r \in ChunksIn(ws) : r.id # chunk.id
                              /\ Score(asked, r.text) >= Score(asked, chunk.text)})
    BY DEF FinishedImportsAreSearchable
  <2> DEFINE others == {q \in ChunksIn(ws) : q.id # chunk.id
                          /\ Score(asked, q.text) >= Score(asked, chunk.text)}
  <2>1. PICK r \in chunks : Taken(r, chunk, ws)
    BY <1>1 DEF TakenInv, EverySectionIsTaken, Pending
  <2>2. r.id = chunk.id /\ r.text = chunk.text /\ r \in ChunksIn(ws)
    BY <2>1 DEF Taken, ChunksIn
  <2>3. IsFiniteSet(asked)
    <3>1. PICK content \in Contents[doc] : doc \in Docs /\ report[doc].lines = content.lines
      BY <1>1 DEF TakenInv, ContentsStand
    <3>2. PICK n \in Starts(content.lines) : chunk.text = Text(content.lines, n)
      BY <3>1 DEF Chunks
    <3>3. n \in DOMAIN content.lines
      BY <3>2 DEF Starts
    <3>4. /\ content.lines \in Seq(ToSet(content.lines))
          /\ \A line \in ToSet(content.lines) : line.words \in Seq(ToSet(line.words))
      BY <3>1, ContentsAssumption
    <3>5. IsFiniteSet(Tokens(chunk.text))
      BY <3>2, <3>3, <3>4, TokensAreFinite
    <3>6. QED
      BY <3>5, IndexAssumption
  <2>4. Keyed /\ VectorsDescribeTheirText
    BY <1>1 DEF IndexInv, RowsAreSound, VectorsDescribeTheirText
  <2>5. IsFiniteSet(ChunksIn(ws)) /\ VectorsIn(ws) \subseteq ChunksIn(ws)
    BY <1>1, FS_Subset DEF TakenInv, ChunksIn, VectorsIn
  <2>6. ASSUME NEW rows \in SUBSET ChunksIn(ws), r \in rows
        PROVE  r \in ByOwnText(rows, asked) \/ Limit <= Cardinality(others)
    <3> DEFINE these == {q \in rows \ {r} : Score(asked, q.text) >= Score(asked, r.text)}
    <3>1. IsFiniteSet(rows)
      BY <2>5, FS_Subset
    <3>2. r \in ByOwnText(rows, asked) \/ Limit <= Cardinality(these)
      BY <2>2, <2>3, <2>6, <3>1, FoundOrOutranked
    <3>3. these \subseteq others
      BY <2>2, <2>4 DEF Keyed, ChunksIn
    <3>4. IsFiniteSet(others)
      BY <2>5, FS_Subset
    <3> HIDE DEF these, others
    <3>5. /\ Cardinality(these) <= Cardinality(others)
          /\ Cardinality(these) \in Nat /\ Cardinality(others) \in Nat
      BY <3>3, <3>4, FS_Subset, FS_CardinalityType
    <3>6. Limit \in Nat
      BY IndexAssumption
    <3>7. QED
      BY <3>2, <3>5, <3>6
  <2> HIDE DEF others
  <2>7. CASE VectorsIn(ws) = {}
    <3>1. Hits(ws, asked) = ByOwnText(ChunksIn(ws), asked)
      BY <2>4, <2>7, KeywordHitsOf DEF Hits
    <3>2. QED
      BY <2>2, <2>6, <3>1 DEF others
  <2>8. CASE VectorsIn(ws) # {}
    <3>1. Hits(ws, asked) = ByOwnText(VectorsIn(ws), asked)
      BY <2>4, <2>8, SemanticHitsOf DEF Hits
    <3>2. r.text # NoText
      <4>1. Score(asked, NoText) = 0
        <5>1. asked \cap Tokens(NoText) = {}
          BY DEF Tokens, NoText, ToSet
        <5>2. QED
          BY <5>1, FS_EmptySet DEF Score
      <4>2. QED
        BY <2>2, <4>1 DEF MinScore
    <3>3. Embedding
      BY <1>1, <2>8 DEF TakenInv, NoVectorsWithoutEmbedding, VectorsIn, ChunksIn
    <3>4. r.vector # NoVector
      BY <2>1, <3>2, <3>3 DEF Taken, Waits
    <3>5. r \in VectorsIn(ws)
      BY <2>2, <3>4 DEF VectorsIn
    <3>6. QED
      BY <2>2, <2>5, <2>6, <3>1, <3>5 DEF others
  <2>9. QED
    BY <2>7, <2>8
<1>2. QED
  BY <1>1, IndexInvariant, SectionsAreTaken, PTL
=============================================================================
