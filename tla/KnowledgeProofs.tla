--------------------------- MODULE KnowledgeProofs ----------------------------
(***************************************************************************)
(* Machine-checked facts about Knowledge, for any set of documents, keys,  *)
(* models, ingesting programs and readers.                                 *)
(***************************************************************************)
EXTENDS Knowledge, WellFoundedInduction, TLAPS

-----------------------------------------------------------------------------
(* Lists of chunks.                                                          *)

\* A non-empty set of positions has a last one.
LEMMA LastPosition ==
  ASSUME NEW n \in Nat, NEW S \in SUBSET (1..n), S # {}
  PROVE  \E m \in S : \A l \in S : l <= m
<1> DEFINE T == {k \in Nat : n - k \in S}
<1>1. T \subseteq Nat
  OBVIOUS
<1>2. \A l \in S : l \in Nat /\ n - l \in Nat /\ n - l \in T
  OBVIOUS
<1>3. PICK x \in T : \A y \in T : ~ (<<y, x>> \in OpToRel(<, Nat))
  <2> HIDE DEF T
  <2>1. T # {}
    BY <1>2
  <2> QED
    BY <1>1, <2>1, NatLessThanWellFounded, WFMin
<1>4. \A l \in S : ~ (n - l < x)
  BY <1>1, <1>2, <1>3 DEF OpToRel
<1>5. n - x \in S /\ x \in Nat
  BY <1>3
<1>6. \A l \in S : l <= n - x
  BY <1>4, <1>5
<1> QED
  BY <1>5, <1>6

\* What is written for an id is one of the document's texts.
LEMMA LastTextType ==
  ASSUME NEW list \in Lists, NEW id \in IdsOf(list)
  PROVE  id \in ChunkIds /\ LastText(list, id) \in Texts
<1>1. PICK D \in SUBSET (1..MaxPassages) : list \in [D -> Chunk]
  BY DEF Lists
<1> DEFINE S == {m \in D : list[m].id = id}
<1>2. S \in SUBSET (1..MaxPassages) /\ S # {}
  BY <1>1 DEF IdsOf
<1>3. \E m \in S : \A l \in S : l <= m
  <2> HIDE DEF S
  <2> QED
    BY <1>2, LastPosition, DocumentsAssumption
<1>4. \E m \in DOMAIN list :
        /\ list[m].id = id
        /\ \A l \in DOMAIN list : list[l].id = id => l <= m
  BY <1>1, <1>3
<1>5. \E m \in DOMAIN list : LastText(list, id) = list[m].text
  BY <1>4 DEF LastText
<1> QED
  BY <1>1, <1>5 DEF Chunk, IdsOf

LEMMA IngestMarkdownType ==
  ASSUME NEW s \in Sources, NEW d \in Documents
  PROVE  IngestMarkdown(s, d) \in Lists
<1> DEFINE D == {m \in 1..Len(d) : ~d[m].short}
<1>1. d \in Seq(Passage) /\ Len(d) <= MaxPassages /\ MaxPassages \in Nat
  BY DocumentsAssumption
<1>2. D \in SUBSET (1..MaxPassages)
  BY <1>1
<1>3. \A n \in D : d[n] \in Passage
  BY <1>1
<1>4. IngestMarkdown(s, d) \in [D -> Chunk]
  BY <1>3 DEF IngestMarkdown, ChunkId, Chunk, ChunkIds, Texts, Passage
<1> QED
  BY <1>2, <1>4 DEF Lists

LEMMA NothingInLists == <<>> \in Lists
<1>1. <<>> \in [{} -> Chunk]
  OBVIOUS
<1> QED
  BY <1>1 DEF Lists

-----------------------------------------------------------------------------
(* The inductive invariant.                                                  *)

\* The passages of a call that has committed them are stored, with its texts as
\* long as no other program has stored them again.
CommittedStored ==
  \A i \in Ingesters :
    job[i].pc \in {"stored", "embedded", "indexed", "labelled"} =>
      \A id \in IdsOf(job[i].list) :
        /\ id \in Rows
        /\ writer[id] = i => chunks[id].text = LastText(job[i].list, id)

\* The table holds nothing that was not committed.
RowsCommitted ==
  \A id \in Rows : <<id, chunks[id].text, chunks[id].key>> \in stored

\* A call that has a list to index has a model.
ModelChosen ==
  \A i \in Ingesters : job[i].pc # "idle" => job[i].model \in Models

KnowledgeInv ==
  /\ KnowledgeTypeOK
  /\ CommittedStored
  /\ RowsCommitted
  /\ ModelChosen
  /\ VectorHasChunk
  /\ IndexFollowsText
  /\ ReadersNeedTheKey
  /\ RefusedOnlyForKeys

LEMMA KnowledgeInitInv == Init => KnowledgeInv
<1> SUFFICES ASSUME Init PROVE KnowledgeInv
  OBVIOUS
<1> USE DEF Init, Rows, Indexed
<1>1. KnowledgeTypeOK
  BY NothingInLists DEF KnowledgeTypeOK, IdleJob, IdleQuery, Job, KnowledgeQuery
<1>2. CommittedStored /\ RowsCommitted /\ ModelChosen /\ VectorHasChunk /\ IndexFollowsText
  BY DEF CommittedStored, RowsCommitted, ModelChosen, VectorHasChunk, IndexFollowsText, IdleJob
<1>3. ReadersNeedTheKey /\ RefusedOnlyForKeys
  BY DEF ReadersNeedTheKey, RefusedOnlyForKeys, IdleQuery
<1> QED
  BY <1>1, <1>2, <1>3 DEF KnowledgeInv

\* A step that leaves the table of passages alone and changes one call.
LEMMA IngestFileInv ==
  ASSUME KnowledgeInv, NEW i \in Ingesters, IngestFile(i)
  PROVE  KnowledgeInv'
<1> USE DEF KnowledgeInv, IngestFile, readerVars, Rows, Indexed
<1>1. PICK s \in Sources, d \in Documents, k \in Keys \cup {Clear}, m \in Models :
        job' = [job EXCEPT ![i] = [pc |-> "parsed", key |-> k, model |-> m,
                                   list |-> IngestMarkdown(s, d)]]
  OBVIOUS
<1>2. IngestMarkdown(s, d) \in Lists
  BY IngestMarkdownType
<1>3. KnowledgeTypeOK'
  BY <1>1, <1>2 DEF KnowledgeTypeOK, Job
<1>4. CommittedStored' /\ ModelChosen'
  BY <1>1 DEF CommittedStored, ModelChosen, KnowledgeTypeOK
<1> QED
  BY <1>3, <1>4 DEF RowsCommitted, VectorHasChunk, IndexFollowsText,
                     ReadersNeedTheKey, RefusedOnlyForKeys

LEMMA CommitChunksInv ==
  ASSUME KnowledgeInv, NEW i \in Ingesters, CommitChunks(i)
  PROVE  KnowledgeInv'
<1> DEFINE list == job[i].list
           key == job[i].key
           ids == IdsOf(list)
<1> USE DEF Rows, Indexed
<1>1. /\ KnowledgeTypeOK /\ CommittedStored /\ RowsCommitted /\ ModelChosen
      /\ VectorHasChunk /\ IndexFollowsText /\ ReadersNeedTheKey /\ RefusedOnlyForKeys
  BY DEF KnowledgeInv
<1>2. list \in Lists /\ key \in Keys \cup {Clear}
  BY <1>1 DEF KnowledgeTypeOK, Job
<1>3. \A id \in ids : id \in ChunkIds /\ LastText(list, id) \in Texts
  BY <1>2, LastTextType
<1>4. DOMAIN chunks' = DOMAIN chunks \cup ids
  BY DEF CommitChunks, Upsert
<1>5. \A id \in ids : chunks'[id] = [text |-> LastText(list, id), key |-> key]
  BY DEF CommitChunks, Upsert
<1>6. \A id \in DOMAIN chunks \ ids : chunks'[id] = chunks[id]
  BY DEF CommitChunks, Upsert
<1>7. stored' = stored \cup {<<id, LastText(list, id), key>> : id \in ids}
  BY DEF CommitChunks
<1>8. /\ settled' = [id \in ChunkIds |-> settled[id] /\ id \notin ids]
      /\ writer' = [id \in ChunkIds |-> IF id \in ids THEN i ELSE writer[id]]
      /\ job' = [job EXCEPT ![i].pc = "stored"]
      /\ job[i].pc = "parsed"
      /\ UNCHANGED <<vectors, meta, query>>
  BY DEF CommitChunks, readerVars
<1>9. chunks' = [id \in DOMAIN chunks' |-> chunks'[id]]
  BY DEF CommitChunks, Upsert
<1> HIDE DEF list, key, ids
<1>10. KnowledgeTypeOK'
  <2>1. DOMAIN chunks' \subseteq ChunkIds /\ chunks' \in [DOMAIN chunks' -> Row]
    BY <1>1, <1>2, <1>3, <1>4, <1>5, <1>6, <1>9 DEF KnowledgeTypeOK, Row
  <2>2. stored' \subseteq ChunkIds \X Texts \X (Keys \cup {Clear})
    BY <1>1, <1>2, <1>3, <1>7 DEF KnowledgeTypeOK
  <2>3. settled' \in [ChunkIds -> BOOLEAN] /\ writer' \in [ChunkIds -> Ingesters \cup {None}]
    BY <1>1, <1>8 DEF KnowledgeTypeOK
  <2>4. job' \in [Ingesters -> Job]
    BY <1>1, <1>8 DEF KnowledgeTypeOK, Job
  <2> QED
    BY <1>1, <1>8, <2>1, <2>2, <2>3, <2>4 DEF KnowledgeTypeOK
<1>11. CommittedStored'
  <2> SUFFICES ASSUME NEW j \in Ingesters,
                      job'[j].pc \in {"stored", "embedded", "indexed", "labelled"},
                      NEW id \in IdsOf(job'[j].list)
               PROVE  /\ id \in DOMAIN chunks'
                      /\ writer'[id] = j => chunks'[id].text = LastText(job'[j].list, id)
    BY DEF CommittedStored
  <2>1. CASE j = i
    <3>1. job'[j].list = list
      BY <1>1, <1>8, <2>1 DEF KnowledgeTypeOK, Job, list
    <3> QED
      BY <1>4, <1>5, <3>1 DEF ids
  <2>2. CASE j # i
    <3>1. job'[j] = job[j]
      BY <1>8, <2>2
    <3>2. id \in DOMAIN chunks /\ (writer[id] = j => chunks[id].text = LastText(job[j].list, id))
      BY <1>1, <3>1 DEF CommittedStored
    <3>3. id \in ChunkIds
      BY <1>1, <3>2 DEF KnowledgeTypeOK
    <3>4. CASE id \in ids
      BY <1>4, <1>8, <2>2, <3>2, <3>3, <3>4
    <3>5. CASE id \notin ids
      BY <1>4, <1>6, <1>8, <3>1, <3>2, <3>3, <3>5
    <3> QED
      BY <3>4, <3>5
  <2> QED
    BY <2>1, <2>2
<1>12. RowsCommitted'
  BY <1>1, <1>4, <1>5, <1>6, <1>7 DEF RowsCommitted
<1>13. ModelChosen'
  BY <1>1, <1>8 DEF ModelChosen, KnowledgeTypeOK, Job
<1>14. VectorHasChunk'
  BY <1>1, <1>4, <1>8 DEF VectorHasChunk
<1>15. IndexFollowsText'
  BY <1>1, <1>4, <1>6, <1>8 DEF IndexFollowsText, VectorHasChunk, KnowledgeTypeOK
<1>16. ReadersNeedTheKey' /\ RefusedOnlyForKeys'
  BY <1>1, <1>7, <1>8 DEF ReadersNeedTheKey, RefusedOnlyForKeys
<1> QED
  BY <1>10, <1>11, <1>12, <1>13, <1>14, <1>15, <1>16 DEF KnowledgeInv

LEMMA CommitVectorsInv ==
  ASSUME KnowledgeInv, NEW i \in Ingesters, CommitVectors(i)
  PROVE  KnowledgeInv'
<1> DEFINE list == job[i].list
           ids == IdsOf(list)
<1> USE DEF Rows, Indexed
<1>1. /\ KnowledgeTypeOK /\ CommittedStored /\ RowsCommitted /\ ModelChosen
      /\ VectorHasChunk /\ IndexFollowsText /\ ReadersNeedTheKey /\ RefusedOnlyForKeys
  BY DEF KnowledgeInv
<1>2. list \in Lists /\ job[i].pc = "embedded" /\ job[i].model \in Models
  BY <1>1 DEF KnowledgeTypeOK, Job, CommitVectors, ModelChosen
<1>3. \A id \in ids : id \in ChunkIds /\ LastText(list, id) \in Texts
  BY <1>2, LastTextType
<1>4. \A id \in ids :
        /\ id \in DOMAIN chunks
        /\ writer[id] = i => chunks[id].text = LastText(list, id)
  BY <1>1, <1>2 DEF CommittedStored
<1>5. /\ DOMAIN vectors' = DOMAIN vectors \cup ids
      /\ vectors' = [id \in DOMAIN vectors' |-> vectors'[id]]
      /\ \A id \in ids : vectors'[id] = [text |-> LastText(list, id), model |-> job[i].model]
      /\ \A id \in DOMAIN vectors \ ids : vectors'[id] = vectors[id]
  BY DEF CommitVectors, Upsert
<1>6. /\ settled' = [id \in ChunkIds |-> IF id \in ids THEN writer[id] = i ELSE settled[id]]
      /\ job' = [job EXCEPT ![i].pc = "indexed"]
      /\ UNCHANGED <<chunks, meta, stored, writer, query>>
  BY DEF CommitVectors, readerVars
<1> HIDE DEF list, ids
<1>7. KnowledgeTypeOK'
  <2>1. DOMAIN vectors' \subseteq ChunkIds /\ vectors' \in [DOMAIN vectors' -> Vector]
    BY <1>1, <1>2, <1>3, <1>5 DEF KnowledgeTypeOK, Vector
  <2>2. settled' \in [ChunkIds -> BOOLEAN]
    BY <1>1, <1>6 DEF KnowledgeTypeOK
  <2>3. job' \in [Ingesters -> Job]
    <3>1. job \in [Ingesters -> Job] /\ job[i] \in Job
      BY <1>1 DEF KnowledgeTypeOK
    <3>2. [job[i] EXCEPT !.pc = "indexed"] \in Job
      BY <3>1 DEF Job
    <3> QED
      BY <1>6, <3>1, <3>2
  <2> QED
    BY <1>1, <1>6, <2>1, <2>2, <2>3 DEF KnowledgeTypeOK
<1>8. CommittedStored' /\ ModelChosen'
  <2>1. \A j \in Ingesters : /\ job'[j].list = job[j].list /\ job'[j].model = job[j].model
                             /\ job'[j].pc # "idle" => job[j].pc # "idle"
                             /\ \/ job'[j].pc = job[j].pc
                                \/ j = i /\ job[j].pc = "embedded"
    BY <1>1, <1>2, <1>6 DEF KnowledgeTypeOK, Job
  <2> QED
    BY <1>1, <1>6, <2>1 DEF CommittedStored, ModelChosen
<1>9. VectorHasChunk'
  BY <1>1, <1>4, <1>5, <1>6 DEF VectorHasChunk
<1>10. IndexFollowsText'
  <2> SUFFICES ASSUME NEW id \in DOMAIN vectors', settled'[id]
               PROVE  vectors'[id].text = chunks[id].text
    BY <1>6 DEF IndexFollowsText
  <2>1. id \in ChunkIds
    BY <1>1, <1>3, <1>5 DEF KnowledgeTypeOK
  <2>2. CASE id \in ids
    <3>1. settled'[id] = (writer[id] = i)
      BY <1>6, <2>1, <2>2
    <3>2. writer[id] = i
      BY <3>1
    <3> QED
      BY <1>4, <1>5, <2>2, <3>2
  <2>3. CASE id \notin ids
    BY <1>1, <1>5, <1>6, <2>1, <2>3 DEF IndexFollowsText
  <2> QED
    BY <2>2, <2>3
<1>11. RowsCommitted' /\ ReadersNeedTheKey' /\ RefusedOnlyForKeys'
  BY <1>1, <1>6 DEF RowsCommitted, ReadersNeedTheKey, RefusedOnlyForKeys
<1> QED
  BY <1>7, <1>8, <1>9, <1>10, <1>11 DEF KnowledgeInv

\* The other steps of a call only change its own progress.
LEMMA OtherIngestInv ==
  ASSUME KnowledgeInv, NEW i \in Ingesters,
         \/ Embed(i) \/ EmbeddingUnavailable(i) \/ CommitModelLabel(i)
         \/ CommitDimension(i) \/ Interrupted(i)
  PROVE  KnowledgeInv'
<1> USE DEF Rows, Indexed
<1>1. /\ KnowledgeTypeOK /\ CommittedStored /\ RowsCommitted /\ ModelChosen
      /\ VectorHasChunk /\ IndexFollowsText /\ ReadersNeedTheKey /\ RefusedOnlyForKeys
  BY DEF KnowledgeInv
<1>2. UNCHANGED <<chunks, vectors, stored, settled, writer, query>>
  BY DEF Embed, EmbeddingUnavailable, CommitModelLabel, CommitDimension, Interrupted, readerVars
<1>3. job' \in [Ingesters -> Job]
  BY <1>1, NothingInLists DEF KnowledgeTypeOK, Job, IdleJob, Embed, EmbeddingUnavailable,
     CommitModelLabel, CommitDimension, Interrupted
<1>4. meta' \in [model : Models \cup {None}, dim : BOOLEAN]
  BY <1>1 DEF KnowledgeTypeOK, Job, Embed, EmbeddingUnavailable, CommitModelLabel,
     CommitDimension, Interrupted
<1>5. \A j \in Ingesters :
        \/ job'[j].pc = "idle"
        \/ /\ job[j].pc # "idle" /\ job'[j].list = job[j].list /\ job'[j].model = job[j].model
           /\ \/ job'[j].pc = job[j].pc
              \/ job[j].pc \in {"stored", "embedded", "indexed", "labelled"}
  BY <1>1 DEF KnowledgeTypeOK, Job, IdleJob, Embed, EmbeddingUnavailable, CommitModelLabel,
     CommitDimension, Interrupted
<1>6. KnowledgeTypeOK'
  BY <1>1, <1>2, <1>3, <1>4 DEF KnowledgeTypeOK
<1>7. CommittedStored' /\ ModelChosen'
  BY <1>1, <1>2, <1>5 DEF CommittedStored, ModelChosen
<1>8. /\ RowsCommitted' /\ VectorHasChunk' /\ IndexFollowsText'
      /\ ReadersNeedTheKey' /\ RefusedOnlyForKeys'
  BY <1>1, <1>2 DEF RowsCommitted, VectorHasChunk, IndexFollowsText,
     ReadersNeedTheKey, RefusedOnlyForKeys
<1> QED
  BY <1>6, <1>7, <1>8 DEF KnowledgeInv

\* The steps of a reader change its query only: it stays well formed, its texts
\* were readable to it, and it is refused for a foreign key only.
LEMMA ReaderInv ==
  ASSUME KnowledgeInv, NEW r \in Readers, StartQuery(r) \/ QueryStep(r)
  PROVE  KnowledgeInv'
<1> USE DEF Rows, Indexed
<1>1. /\ KnowledgeTypeOK /\ CommittedStored /\ RowsCommitted /\ ModelChosen
      /\ VectorHasChunk /\ IndexFollowsText /\ ReadersNeedTheKey /\ RefusedOnlyForKeys
  BY DEF KnowledgeInv
<1>2. UNCHANGED <<chunks, vectors, meta, job, stored, settled, writer>>
  BY DEF StartQuery, QueryStep, VectorSearch, KeywordSearch, ModelLoadFails, ListChunks,
     Hydrate, Finish, storeVars
<1>3. query[r] \in KnowledgeQuery
  BY <1>1 DEF KnowledgeTypeOK
<1>4. \A id \in Rows : /\ id \in ChunkIds /\ chunks[id] \in Row
                       /\ <<id, chunks[id].text, chunks[id].key>> \in stored
  BY <1>1 DEF KnowledgeTypeOK, RowsCommitted
<1> DEFINE Fine(q) ==
      /\ q \in KnowledgeQuery
      /\ \A h \in q.hits :
           h.text # None => \E k \in {Clear, q.key} : <<h.id, h.text, k>> \in stored
      /\ q.pc \in {"locked", "failed"} =>
           \E row \in stored : row[3] \notin {Clear, q.key}
<1>5. \A q \in Readers : Fine(query[q])
  BY <1>1 DEF KnowledgeTypeOK, ReadersNeedTheKey, RefusedOnlyForKeys
<1>6. ASSUME NEW q, Fine(q), query' = [query EXCEPT ![r] = q]
      PROVE  KnowledgeInv'
  <2>1. \A s \in Readers : Fine(query'[s])
    BY <1>1, <1>5, <1>6 DEF KnowledgeTypeOK
  <2>2. query' \in [Readers -> KnowledgeQuery]
    BY <1>1, <1>6 DEF KnowledgeTypeOK
  <2>3. KnowledgeTypeOK'
    BY <1>1, <1>2, <2>2 DEF KnowledgeTypeOK
  <2>4. ReadersNeedTheKey' /\ RefusedOnlyForKeys'
    BY <1>2, <2>1 DEF ReadersNeedTheKey, RefusedOnlyForKeys
  <2>5. /\ CommittedStored' /\ RowsCommitted' /\ ModelChosen'
        /\ VectorHasChunk' /\ IndexFollowsText'
    BY <1>1, <1>2 DEF CommittedStored, RowsCommitted, ModelChosen, VectorHasChunk,
       IndexFollowsText
  <2> QED
    BY <2>3, <2>4, <2>5 DEF KnowledgeInv
<1>7. Fine(query[r])
  BY <1>5
<1>8. CASE StartQuery(r)
  <2>1. PICK kind \in {"retrieve", "search", "list"}, k \in Keys \cup {Clear} :
          query' = [query EXCEPT ![r] =
            [IdleQuery EXCEPT !.pc = "asked", !.kind = kind, !.key = k]]
    BY <1>8 DEF StartQuery
  <2>2. Fine([IdleQuery EXCEPT !.pc = "asked", !.kind = kind, !.key = k])
    BY DEF IdleQuery, KnowledgeQuery
  <2> HIDE DEF Fine
  <2> QED
    BY <1>6, <2>1, <2>2
<1>9. CASE VectorSearch(r)
  <2>1. PICK ids \in Picks(Indexed) :
          query' = [query EXCEPT ![r].pc = "hydrate", ![r].todo = ids]
    BY <1>9 DEF VectorSearch
  <2>2. ids \subseteq ChunkIds
    BY <1>1 DEF Picks, KnowledgeTypeOK
  <2>3. Fine([query[r] EXCEPT !.pc = "hydrate", !.todo = ids])
    BY <1>3, <1>7, <2>2 DEF KnowledgeQuery
  <2> HIDE DEF Fine
  <2> QED
    BY <1>1, <1>6, <2>1, <2>3 DEF KnowledgeTypeOK
<1> DEFINE Over(outcome) == [query[r] EXCEPT !.pc = outcome, !.todo = {}, !.hits = {}]
<1>10. ASSUME NEW outcome \in {"locked", "failed", "broken"}, Answer(r, outcome),
              outcome # "broken" =>
                \E row \in stored : row[3] \notin {Clear, query[r].key}
       PROVE  KnowledgeInv'
  <2>1. query' = [query EXCEPT ![r] = Over(outcome)]
    BY <1>1, <1>10 DEF Answer, KnowledgeTypeOK
  <2>2. Fine(Over(outcome))
    BY <1>3, <1>10 DEF KnowledgeQuery
  <2> HIDE DEF Fine, Over
  <2> QED
    BY <1>6, <2>1, <2>2
<1>11. \A id \in Rows : ~Readable(chunks[id], query[r].key) =>
         \E row \in stored : row[3] \notin {Clear, query[r].key}
  BY <1>4 DEF Readable
<1>12. CASE KeywordSearch(r)
  <2>1. PICK scope \in IF query[r].kind = "search" THEN {Rows} ELSE SUBSET Rows :
          IF \A id \in scope : Readable(chunks[id], query[r].key)
          THEN \E ids \in Picks(scope) :
                 query' = [query EXCEPT ![r].pc = "hydrate", ![r].todo = ids]
          ELSE Answer(r, IF query[r].kind = "search" THEN "locked" ELSE "failed")
    BY <1>12 DEF KeywordSearch
  <2>2. scope \subseteq Rows
    BY <2>1
  <2>3. CASE \A id \in scope : Readable(chunks[id], query[r].key)
    <3>1. PICK ids \in Picks(scope) :
            query' = [query EXCEPT ![r].pc = "hydrate", ![r].todo = ids]
      BY <2>1, <2>3
    <3>2. ids \subseteq ChunkIds
      BY <1>4, <2>2 DEF Picks
    <3>3. Fine([query[r] EXCEPT !.pc = "hydrate", !.todo = ids])
      BY <1>3, <1>7, <3>2 DEF KnowledgeQuery
    <3> HIDE DEF Fine
    <3> QED
      BY <1>1, <1>6, <3>1, <3>3 DEF KnowledgeTypeOK
  <2>4. CASE ~ \A id \in scope : Readable(chunks[id], query[r].key)
    <3>1. \E row \in stored : row[3] \notin {Clear, query[r].key}
      BY <1>11, <2>2, <2>4
    <3>2. Answer(r, "locked") \/ Answer(r, "failed")
      BY <2>1, <2>4
    <3> QED
      BY <1>10, <3>1, <3>2
  <2> QED
    BY <2>3, <2>4
<1>13. CASE ModelLoadFails(r)
  BY <1>10, <1>13 DEF ModelLoadFails
<1>14. CASE ListChunks(r)
  <2> DEFINE hits == {[id |-> id, text |-> IF Readable(chunks[id], Clear)
                                           THEN chunks[id].text ELSE None] : id \in Rows}
  <2>1. query' = [query EXCEPT ![r] = [query[r] EXCEPT !.pc = "done", !.hits = hits]]
    BY <1>1, <1>14 DEF ListChunks, KnowledgeTypeOK
  <2>2. hits \subseteq [id : ChunkIds, text : Texts \cup {None}]
    <3>1. \A id \in Rows : id \in ChunkIds /\ chunks[id].text \in Texts
      BY <1>4 DEF Row
    <3> QED
      BY <3>1
  <2>3. \A h \in hits : h.text # None => <<h.id, h.text, Clear>> \in stored
    BY <1>4, KeysAssumption DEF Readable
  <2> HIDE DEF hits
  <2>4. Fine([query[r] EXCEPT !.pc = "done", !.hits = hits])
    BY <1>3, <2>2, <2>3 DEF KnowledgeQuery
  <2> HIDE DEF Fine
  <2> QED
    BY <1>6, <2>1, <2>4
<1>15. CASE Hydrate(r)
  <2> DEFINE left(id) == [query[r] EXCEPT !.todo = @ \ {id}]
             with(id, text) == [query[r] EXCEPT !.todo = @ \ {id},
                                                !.hits = @ \cup {[id |-> id, text |-> text]}]
  <2>1. PICK id \in query[r].todo :
          IF id \in Rows /\ Readable(chunks[id], query[r].key)
          THEN query' = [query EXCEPT ![r] = with(id, chunks[id].text)]
          ELSE IF query[r].kind = "search" THEN query' = [query EXCEPT ![r] = with(id, None)]
          ELSE IF id \notin Rows THEN query' = [query EXCEPT ![r] = left(id)]
          ELSE Answer(r, "failed")
    BY <1>15 DEF Hydrate
  <2>2. id \in ChunkIds
    BY <1>3, <2>1 DEF KnowledgeQuery
  <2>3. Fine(left(id))
    BY <1>3, <1>7 DEF KnowledgeQuery
  <2>4. ASSUME NEW text \in Texts \cup {None},
               text # None => \E k \in {Clear, query[r].key} : <<id, text, k>> \in stored
        PROVE  Fine(with(id, text))
    <3> DEFINE q == with(id, text)
               new == [id |-> id, text |-> text]
    <3>0. new \in [id : ChunkIds, text : Texts \cup {None}]
      BY <2>2, <2>4
    <3>1. /\ q.hits = query[r].hits \cup {new} /\ q.todo = query[r].todo \ {id}
          /\ q.key = query[r].key /\ q.pc = query[r].pc /\ q \in KnowledgeQuery
      <4> HIDE DEF new
      <4>1. q = [query[r] EXCEPT !.todo = query[r].todo \ {id}, !.hits = query[r].hits \cup {new}]
        BY DEF new
      <4> HIDE DEF with, q
      <4> QED
        BY <1>3, <3>0, <4>1 DEF KnowledgeQuery
    <3>2. new.id = id /\ new.text = text
      OBVIOUS
    <3> HIDE DEF with, new
    <3>3. \A h \in q.hits :
            h.text # None => \E k \in {Clear, q.key} : <<h.id, h.text, k>> \in stored
      BY <1>7, <2>4, <3>1, <3>2
    <3> QED
      BY <1>7, <3>1, <3>3
  <2>5. ASSUME id \in Rows, Readable(chunks[id], query[r].key)
        PROVE  Fine(with(id, chunks[id].text))
    <3>1. chunks[id].text \in Texts
      BY <1>4, <2>5 DEF Row
    <3>2. \E k \in {Clear, query[r].key} : <<id, chunks[id].text, k>> \in stored
      BY <1>4, <2>5 DEF Readable
    <3> HIDE DEF Fine, with
    <3> QED
      BY <2>4, <3>1, <3>2
  <2>6. CASE Answer(r, "failed") /\ id \in Rows /\ ~Readable(chunks[id], query[r].key)
    BY <1>10, <1>11, <2>6
  <2>7. Fine(with(id, None))
    <3> HIDE DEF Fine, with
    <3> QED
      BY <2>4
  <2> HIDE DEF Fine, left, with
  <2> QED
    BY <1>6, <2>1, <2>3, <2>4, <2>5, <2>6, <2>7
<1>16. CASE Finish(r)
  <2>1. Fine([query[r] EXCEPT !.pc = "done"])
    BY <1>3, <1>7 DEF KnowledgeQuery
  <2>2. query' = [query EXCEPT ![r] = [query[r] EXCEPT !.pc = "done"]]
    BY <1>1, <1>16 DEF Finish, KnowledgeTypeOK
  <2> HIDE DEF Fine
  <2> QED
    BY <1>6, <2>1, <2>2
<1> QED
  BY <1>8, <1>9, <1>12, <1>13, <1>14, <1>15, <1>16 DEF QueryStep

LEMMA KnowledgeNextInv == KnowledgeInv /\ [Next]_vars => KnowledgeInv'
<1> SUFFICES ASSUME KnowledgeInv, [Next]_vars PROVE KnowledgeInv'
  OBVIOUS
<1>1. ASSUME NEW i \in Ingesters, IngestFile(i) \/ IngestStep(i) \/ Interrupted(i)
      PROVE  KnowledgeInv'
  BY <1>1, IngestFileInv, CommitChunksInv, CommitVectorsInv, OtherIngestInv DEF IngestStep
<1>2. ASSUME NEW r \in Readers, StartQuery(r) \/ QueryStep(r)
      PROVE  KnowledgeInv'
  BY <1>2, ReaderInv
<1>3. CASE UNCHANGED vars
  BY <1>3 DEF vars, KnowledgeInv, KnowledgeTypeOK, CommittedStored, RowsCommitted, ModelChosen,
     VectorHasChunk, IndexFollowsText, ReadersNeedTheKey, RefusedOnlyForKeys, Rows, Indexed
<1> QED
  BY <1>1, <1>2, <1>3 DEF Next

LEMMA KnowledgeInvariant == Spec => []KnowledgeInv
<1> QED
  BY KnowledgeInitInv, KnowledgeNextInv, PTL DEF Spec

-----------------------------------------------------------------------------
(* The results.                                                              *)

\* The tables and the calls in flight keep their shape.
THEOREM KnowledgeTypeCorrect == Spec => []KnowledgeTypeOK
<1>1. KnowledgeInv => KnowledgeTypeOK
  BY DEF KnowledgeInv
<1> QED
  BY <1>1, KnowledgeInvariant, PTL

\* A search never meets a vector without its passage, whatever ingestions stop
\* between the transactions of add_chunks.
THEOREM VectorsHaveChunks == Spec => []VectorHasChunk
<1>1. KnowledgeInv => VectorHasChunk
  BY DEF KnowledgeInv
<1> QED
  BY <1>1, KnowledgeInvariant, PTL

\* The vector of a settled passage was computed from the stored text.
THEOREM IndexIsOfStoredText == Spec => []IndexFollowsText
<1>1. KnowledgeInv => IndexFollowsText
  BY DEF KnowledgeInv
<1> QED
  BY <1>1, KnowledgeInvariant, PTL

\* No answer carries a text that was stored under a key the caller lacks.
THEOREM AnswersNeedTheKey == Spec => []ReadersNeedTheKey
<1>1. KnowledgeInv => ReadersNeedTheKey
  BY DEF KnowledgeInv
<1> QED
  BY <1>1, KnowledgeInvariant, PTL

\* A request is refused only when something was stored under a foreign key.
THEOREM RefusalsHaveACause == Spec => []RefusedOnlyForKeys
<1>1. KnowledgeInv => RefusedOnlyForKeys
  BY DEF KnowledgeInv
<1> QED
  BY <1>1, KnowledgeInvariant, PTL
===============================================================================
