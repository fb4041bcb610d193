------------------------------ MODULE Knowledge -------------------------------
(***************************************************************************)
(* The local knowledge base: documents are cut into passages, stored in   *)
(* the table pke_chunks (encrypted when the caller supplies a key), and    *)
(* indexed in pke_chunks_vec; pke_meta names the model behind the index.   *)
(*                                                                         *)
(* add_chunks commits the passages, their vectors and the two meta rows in *)
(* four transactions.  An ingesting program may stop between any two of    *)
(* them, find the embedding model missing, or overlap with another one.    *)
(* Readers search first and fetch each passage afterwards, so a passage    *)
(* can be stored again, under another key, in between.                     *)
(*                                                                         *)
(* A passage has a head (its first 200 characters) and a tail.  The id is  *)
(* computed from the source and the head only, so two passages may share   *)
(* an id and differ in their text.                                         *)
(***************************************************************************)
EXTENDS Naturals, Sequences, FiniteSets

CONSTANTS
  Sources,      \* documents, by the name in their front matter
  Heads, Tails, \* the two halves of a passage
  Documents,    \* contents a document may have: sequences of passages
  MaxPassages,  \* bound: passages in a document (a file has at most 10 MB)
  Keys,         \* data encryption keys a caller may hold
  Models,       \* labels of embedding functions
  Ingesters,    \* programs that ingest
  Readers,      \* retrieval calls and server requests
  TopK,         \* results per query
  None,
  MaxIngests,   \* bound: ingestions started
  MaxQueries    \* bound: queries started

Passage == [head : Heads, tail : Tails, short : BOOLEAN]
ChunkIds == Sources \X Heads
Texts == Heads \X Tails
\* A row without a nonce is cleartext.
Clear == "clear"

ASSUME DocumentsAssumption ==
  /\ MaxPassages \in Nat
  /\ Documents \subseteq {d \in Seq(Passage) : Len(d) <= MaxPassages}
ASSUME KeysAssumption == Clear \notin Keys /\ None \notin Keys
ASSUME NoneAssumption == None \notin Models \cup Texts \cup Ingesters
ASSUME BoundsAssumption == TopK \in Nat \ {0} /\ MaxIngests \in Nat /\ MaxQueries \in Nat

VARIABLES
  chunks,   \* pke_chunks: a function from the stored ids to their rows
  vectors,  \* pke_chunks_vec: from the indexed ids to what was embedded
  meta,     \* pke_meta: the recorded model, and whether a dimension is recorded
  job,      \* ingester -> progress of its add_chunks call
  query,    \* reader -> progress of its query
  stored,   \* history: every <<id, text, key>> ever committed
  settled,  \* history: id -> the last program to commit the passage also was
            \*   the last to commit a vector for it
  writer,   \* history: id -> the last ingester to commit the passage
  ingests, queries

vars == <<chunks, vectors, meta, job, query, stored, settled, writer, ingests, queries>>

-------------------------------------------------------------------------------
(* Documents and rows.                                                       *)

\* Mutant: the id is computed from the text alone.
ChunkIdOfText(source, passage) == passage.head

\* generate_chunk_id: source and the first 200 characters of the text.
ChunkId(source, passage) == <<source, passage.head>>

\* ingest_markdown: passages below MIN_CHUNK_WORDS are dropped, the others
\* become chunks.  A list of chunks keeps the positions in the document.
IngestMarkdown(source, document) ==
  [n \in {m \in 1..Len(document) : ~document[m].short} |->
     [id   |-> ChunkId(source, document[n]),
      text |-> <<document[n].head, document[n].tail>>]]

IdsOf(list) == {list[n].id : n \in DOMAIN list}

\* Rows are written in document order: the last passage with an id stays.
LastText(list, id) ==
  LET n == CHOOSE m \in DOMAIN list :
             /\ list[m].id = id
             /\ \A l \in DOMAIN list : list[l].id = id => l <= m
  IN  list[n].text

\* INSERT OR REPLACE, or delete and insert.
Upsert(table, new) ==
  [id \in DOMAIN table \cup DOMAIN new |->
     IF id \in DOMAIN new THEN new[id] ELSE table[id]]

Rows == DOMAIN chunks
Indexed == DOMAIN vectors

\* Mutants: a failed authentication is ignored; a store with a key expects every
\* row to be encrypted with it.
ReadableAlways(row, key) == TRUE
ReadableOwnOnly(row, key) == row.key = key

\* _maybe_decrypt: a row is readable when it has no nonce or the key opens it;
\* everything else raises PkeEncryptionError.
Readable(row, key) == row.key = Clear \/ row.key = key

IdleJob == [pc |-> "idle", key |-> Clear, model |-> None, list |-> <<>>]
IdleQuery == [pc |-> "idle", kind |-> "retrieve", key |-> Clear, todo |-> {}, hits |-> {}]

\* _init_schema on a new file.
Init ==
  /\ chunks = <<>>
  /\ vectors = <<>>
  /\ meta = [model |-> None, dim |-> FALSE]
  /\ job = [i \in Ingesters |-> IdleJob]
  /\ query = [r \in Readers |-> IdleQuery]
  /\ stored = {}
  /\ settled = [id \in ChunkIds |-> TRUE]
  /\ writer = [id \in ChunkIds |-> None]
  /\ ingests = 0
  /\ queries = 0

readerVars == <<query, queries>>

-------------------------------------------------------------------------------
(* Ingestion: ingest_markdown, then add_chunks.                              *)

\* Mutant: the first transaction is skipped, the index is written first.
IngestFileIndexFirst(i) ==
  /\ job[i].pc = "idle"
  /\ ingests < MaxIngests
  /\ \E s \in Sources, d \in Documents, k \in Keys \cup {Clear}, m \in Models :
       /\ IdsOf(IngestMarkdown(s, d)) # {}
       /\ job' = [job EXCEPT ![i] = [pc |-> "stored", key |-> k, model |-> m,
                                     list |-> IngestMarkdown(s, d)]]
  /\ ingests' = ingests + 1
  /\ UNCHANGED <<chunks, vectors, meta, stored, settled, writer, readerVars>>

\* Reads and cuts the file; a document without a long passage stores nothing.
IngestFile(i) ==
  /\ job[i].pc = "idle"
  /\ ingests < MaxIngests
  /\ \E s \in Sources, d \in Documents, k \in Keys \cup {Clear}, m \in Models :
       /\ IdsOf(IngestMarkdown(s, d)) # {}
       /\ job' = [job EXCEPT ![i] = [pc |-> "parsed", key |-> k, model |-> m,
                                     list |-> IngestMarkdown(s, d)]]
  /\ ingests' = ingests + 1
  /\ UNCHANGED <<chunks, vectors, meta, stored, settled, writer, readerVars>>

\* First transaction: every passage, encrypted when there is a key.
CommitChunks(i) ==
  LET list == job[i].list
      rows == [id \in IdsOf(list) |-> [text |-> LastText(list, id), key |-> job[i].key]]
  IN  /\ job[i].pc = "parsed"
      /\ chunks' = Upsert(chunks, rows)
      /\ stored' = stored \cup {<<id, rows[id].text, rows[id].key>> : id \in IdsOf(list)}
      /\ settled' = [id \in ChunkIds |-> settled[id] /\ id \notin IdsOf(list)]
      /\ writer' = [id \in ChunkIds |-> IF id \in IdsOf(list) THEN i ELSE writer[id]]
      /\ job' = [job EXCEPT ![i].pc = "stored"]
      /\ UNCHANGED <<vectors, meta, ingests, readerVars>>

\* embed_chunks in memory.
Embed(i) ==
  /\ job[i].pc = "stored"
  /\ job' = [job EXCEPT ![i].pc = "embedded"]
  /\ UNCHANGED <<chunks, vectors, meta, stored, settled, writer, ingests, readerVars>>

\* Without the extension, the model or the download the passages stay stored
\* without vectors; whatever vectors they had stay as well.
EmbeddingUnavailable(i) ==
  /\ job[i].pc = "stored"
  /\ job' = [job EXCEPT ![i] = IdleJob]
  /\ UNCHANGED <<chunks, vectors, meta, stored, settled, writer, ingests, readerVars>>

\* Mutant: a passage that has a vector keeps it.
CommitMissingVectors(i) ==
  LET list == job[i].list
      new == [id \in IdsOf(list) |-> [text |-> LastText(list, id), model |-> job[i].model]]
  IN  /\ job[i].pc = "embedded"
      /\ vectors' = Upsert(new, vectors)
      /\ settled' = [id \in ChunkIds |->
                       IF id \in IdsOf(list) THEN writer[id] = i ELSE settled[id]]
      /\ job' = [job EXCEPT ![i].pc = "indexed"]
      /\ UNCHANGED <<chunks, meta, stored, writer, ingests, readerVars>>

\* Second transaction: delete and insert the vector of each passage.
CommitVectors(i) ==
  LET list == job[i].list
      new == [id \in IdsOf(list) |-> [text |-> LastText(list, id), model |-> job[i].model]]
  IN  /\ job[i].pc = "embedded"
      /\ vectors' = Upsert(vectors, new)
      /\ settled' = [id \in ChunkIds |->
                       IF id \in IdsOf(list) THEN writer[id] = i ELSE settled[id]]
      /\ job' = [job EXCEPT ![i].pc = "indexed"]
      /\ UNCHANGED <<chunks, meta, stored, writer, ingests, readerVars>>

\* Third and fourth transactions: _set_meta of the model and of the dimension.
CommitModelLabel(i) ==
  /\ job[i].pc = "indexed"
  /\ meta' = [meta EXCEPT !.model = job[i].model]
  /\ job' = [job EXCEPT ![i].pc = "labelled"]
  /\ UNCHANGED <<chunks, vectors, stored, settled, writer, ingests, readerVars>>

CommitDimension(i) ==
  /\ job[i].pc = "labelled"
  /\ meta' = [meta EXCEPT !.dim = TRUE]
  /\ job' = [job EXCEPT ![i] = IdleJob]
  /\ UNCHANGED <<chunks, vectors, stored, settled, writer, ingests, readerVars>>

\* The program stops, or a statement fails and the open transaction is rolled
\* back; committed transactions stay.
Interrupted(i) ==
  /\ job[i].pc # "idle"
  /\ job' = [job EXCEPT ![i] = IdleJob]
  /\ UNCHANGED <<chunks, vectors, meta, stored, settled, writer, ingests, readerVars>>

-------------------------------------------------------------------------------
(* Retrieval (pae.pke.retrieve) and the server's list and search requests.   *)

Picks(ids) == {s \in SUBSET ids : Cardinality(s) <= TopK}
Answer(r, outcome) ==
  query' = [query EXCEPT ![r].pc = outcome, ![r].todo = {}, ![r].hits = {}]
storeVars == <<chunks, vectors, meta, job, stored, settled, writer, ingests>>

\* retrieve_by_theme and retrieve_by_context hold the caller's key; a server
\* request never has one.
StartQuery(r) ==
  /\ query[r].pc \in {"idle", "done", "locked", "failed", "broken"}
  /\ queries < MaxQueries
  /\ queries' = queries + 1
  /\ \E kind \in {"retrieve", "search", "list"}, k \in Keys \cup {Clear} :
       /\ kind # "retrieve" => k = Clear
       /\ query' = [query EXCEPT ![r] =
            [IdleQuery EXCEPT !.pc = "asked", !.kind = kind, !.key = k]]
  /\ UNCHANGED storeVars

\* The vector path, when the index is usable and holds something.
VectorSearch(r) ==
  /\ query[r].pc = "asked" /\ query[r].kind = "retrieve"
  /\ Indexed # {}
  /\ \E ids \in Picks(Indexed) :
       query' = [query EXCEPT ![r].pc = "hydrate", ![r].todo = ids]
  /\ UNCHANGED <<storeVars, queries>>

\* The keyword path reads the text of every row, or of every row of the themes
\* a retrieval asks for.
KeywordSearch(r) ==
  /\ query[r].pc = "asked" /\ query[r].kind \in {"retrieve", "search"}
  /\ \E scope \in IF query[r].kind = "search" THEN {Rows} ELSE SUBSET Rows :
       IF \A id \in scope : Readable(chunks[id], query[r].key)
       THEN \E ids \in Picks(scope) :
              query' = [query EXCEPT ![r].pc = "hydrate", ![r].todo = ids]
       ELSE Answer(r, IF query[r].kind = "search" THEN "locked" ELSE "failed")
  /\ UNCHANGED <<storeVars, queries>>

\* The model cannot be loaded for a reason _get_model does not translate.
ModelLoadFails(r) ==
  /\ query[r].pc = "asked" /\ query[r].kind = "retrieve"
  /\ Indexed # {}
  /\ Answer(r, "broken")
  /\ UNCHANGED <<storeVars, queries>>

\* list_knowledge_chunks: rows the server cannot read are listed without text.
ListChunks(r) ==
  /\ query[r].pc = "asked" /\ query[r].kind = "list"
  /\ query' = [query EXCEPT ![r].pc = "done",
       ![r].hits = {[id |-> id,
                     text |-> IF Readable(chunks[id], Clear) THEN chunks[id].text ELSE None]
                    : id \in Rows}]
  /\ UNCHANGED <<storeVars, queries>>

\* get_chunk for one result.  A retrieval skips a passage that is gone and fails
\* as a whole on one it cannot open; the search request shows both as locked hits.
Hydrate(r) ==
  /\ query[r].pc = "hydrate"
  /\ \E id \in query[r].todo :
       LET opens == id \in Rows /\ Readable(chunks[id], query[r].key)
           left == [query[r] EXCEPT !.todo = @ \ {id}]
           with(text) == [query[r] EXCEPT !.todo = @ \ {id},
                                         !.hits = @ \cup {[id |-> id, text |-> text]}]
       IN  IF opens THEN query' = [query EXCEPT ![r] = with(chunks[id].text)]
           ELSE IF query[r].kind = "search" THEN query' = [query EXCEPT ![r] = with(None)]
           ELSE IF id \notin Rows THEN query' = [query EXCEPT ![r] = left]
           ELSE Answer(r, "failed")
  /\ UNCHANGED <<storeVars, queries>>

Finish(r) ==
  /\ query[r].pc = "hydrate" /\ query[r].todo = {}
  /\ query' = [query EXCEPT ![r].pc = "done"]
  /\ UNCHANGED <<storeVars, queries>>

-------------------------------------------------------------------------------
IngestStep(i) ==
  \/ CommitChunks(i) \/ Embed(i) \/ EmbeddingUnavailable(i) \/ CommitVectors(i)
  \/ CommitModelLabel(i) \/ CommitDimension(i)

QueryStep(r) ==
  VectorSearch(r) \/ KeywordSearch(r) \/ ModelLoadFails(r) \/ ListChunks(r)
  \/ Hydrate(r) \/ Finish(r)

Next ==
  \/ \E i \in Ingesters : IngestFile(i) \/ IngestStep(i) \/ Interrupted(i)
  \/ \E r \in Readers : StartQuery(r) \/ QueryStep(r)

Spec == Init /\ [][Next]_vars

-------------------------------------------------------------------------------
(* Properties.                                                               *)

Row == [text : Texts, key : Keys \cup {Clear}]
Vector == [text : Texts, model : Models]
Chunk == [id : ChunkIds, text : Texts]
\* The chunks of a document, by their positions.
Lists == UNION {[D -> Chunk] : D \in SUBSET (1..MaxPassages)}
Job == [pc : {"idle", "parsed", "stored", "embedded", "indexed", "labelled"},
        key : Keys \cup {Clear}, model : Models \cup {None}, list : Lists]
KnowledgeQuery ==
  [pc : {"idle", "asked", "hydrate", "done", "locked", "failed", "broken"},
   kind : {"retrieve", "search", "list"}, key : Keys \cup {Clear},
   todo : SUBSET ChunkIds, hits : SUBSET [id : ChunkIds, text : Texts \cup {None}]]

\* Shape of the tables and of the calls in flight.
KnowledgeTypeOK ==
  /\ Rows \subseteq ChunkIds /\ chunks \in [Rows -> Row]
  /\ Indexed \subseteq ChunkIds /\ vectors \in [Indexed -> Vector]
  /\ meta \in [model : Models \cup {None}, dim : BOOLEAN]
  /\ job \in [Ingesters -> Job]
  /\ query \in [Readers -> KnowledgeQuery]
  /\ stored \subseteq ChunkIds \X Texts \X (Keys \cup {Clear})
  /\ settled \in [ChunkIds -> BOOLEAN]
  /\ writer \in [ChunkIds -> Ingesters \cup {None}]

\* A search never meets a vector without its passage: whatever ingestions were
\* interrupted between their transactions, an indexed id is in pke_chunks.
VectorHasChunk == Indexed \subseteq Rows

\* The vector of a passage was computed from the text that is stored, unless
\* the ingestion that stored the text stopped before its vectors, had no
\* model, or was overtaken by another one.  In particular ingesting a document
\* again repairs what an interruption left behind.
IndexFollowsText ==
  \A id \in Indexed : settled[id] => vectors[id].text = chunks[id].text

\* No answer carries a text that was neither stored in the clear nor under the
\* key of the caller, also when the passage is stored again under another key
\* between the search and the read.
ReadersNeedTheKey ==
  \A r \in Readers : \A h \in query[r].hits :
    h.text # None =>
      \E k \in {Clear, query[r].key} : <<h.id, h.text, k>> \in stored

\* A request is refused for its key only when a passage was stored under a key
\* the caller does not hold: a store that mixes cleartext and one's own passages
\* stays readable, whatever is stored again while the request runs.
RefusedOnlyForKeys ==
  \A r \in Readers :
    query[r].pc \in {"locked", "failed"} =>
      \E row \in stored : row[3] \notin {Clear, query[r].key}
===============================================================================
