------------------------------ MODULE Knowledge ------------------------------
(***************************************************************************)
(* The knowledge store: a catalogue of rows in a database and, beside it, a *)
(* vector index.  A document is one row, or a parent row and one row for    *)
(* each of its chunks.  A write touches the two stores row by row and has no *)
(* transaction around it, so that two requests may interleave and a failure *)
(* of the index, or of the process, leaves a document half written.         *)
(* A search recalls rows of both stores and then reads the neighbours of    *)
(* the best chunks.  Texts are the number of the write that brought them.   *)
(***************************************************************************)
EXTENDS Integers, FiniteSets, SequencesExt

CONSTANTS Docs, Builtin,   \* document ids, and the one that the start seeds
          Owners, Shared,  \* sessions, and the mark of a document of none
          Threads,         \* request threads
          MaxChunks,       \* chunks of a document
          MaxWrites,       \* bound on writes begun
          MaxSearches,     \* bound on searches begun
          TopK, PerDoc, MaxRank  \* hits of a search, of a document, and expanded

KnowledgeAssumption ==
    /\ MaxChunks > 1 /\ Builtin \in Docs /\ IsFiniteSet(Docs) /\ Shared \notin Owners
    /\ {MaxChunks, MaxWrites, MaxSearches, TopK, PerDoc, MaxRank} \subseteq Nat \ {0}

VARIABLES cat,      \* the catalogue: what is stored under each row id
          vec,      \* the vector index: what is stored under each row id
          writer,   \* each thread: its documents still to write, its steps
          query,    \* the search under way
          writes,   \* writes begun so far
          searches, \* searches begun so far
          last      \* history: how the last write of each document ended

knowVars == <<cat, vec, writer, query, writes, searches, last>>

Rows == Docs \X (0 .. MaxChunks)   \* _chunk_row_id: <<d, 0>> is the document's own row
Scopes == Owners \cup {Shared}
NoRow == [kind |-> "none", ver |-> 0, own |-> Shared, hash |-> 0, of |-> 0]
Row(kind, job, n) == [kind |-> kind, ver |-> job.ver, own |-> job.own, hash |-> job.hash, of |-> n]
Stored(kinds) == {r \in Rows : cat[r].kind \in kinds}
Children(d) == {r \in Stored({"chunk"}) : r[1] = d}           \* _child_chunk_ids
FirstOf(rows) == CHOOSE r \in rows : \A q \in rows : r[2] <= q[2]

NoJob == [op |-> "none", doc |-> Builtin, n |-> 1, ver |-> 0, own |-> Shared, hash |-> 0]
Resting == [job |-> NoJob, left |-> <<>>, todo |-> <<>>, alone |-> TRUE]
NoQuery == [pc |-> "none", own |-> Shared, hits |-> <<>>, near |-> <<>>,
            rank |-> 1, offset |-> -1, sure |-> {}]

-----------------------------------------------------------------------------
(* What a write does, as a list of steps of the two stores *)

\* In whatever order the database gives the rows.
DeleteSteps(rows) == [i \in DOMAIN SetToSeq(rows) |-> <<"del", SetToSeq(rows)[i], NoRow>>]

\* Mutant of UpsertSteps: the chunks of the last upload are not removed first.
UpsertOver(job) ==
    IF job.n = 1 THEN << <<"del", <<job.doc, 0>>, NoRow>>, <<"put", <<job.doc, 0>>, Row("single", job, 1)>> >>
    ELSE [i \in 1 .. job.n + 1 |->
            <<IF i = 1 THEN "parent" ELSE "put", <<job.doc, i - 1>>, Row(IF i = 1 THEN "parent" ELSE "chunk", job, job.n)>>]

\* upsert_document: the children go first; a text of one piece replaces the row, a
\* longer one keeps a parent row, which is not indexed, and stores its chunks.
UpsertSteps(job) ==
    DeleteSteps(Children(job.doc)) \o
    IF job.n = 1
    THEN << <<"del", <<job.doc, 0>>, NoRow>>, <<"put", <<job.doc, 0>>, Row("single", job, 1)>> >>
    ELSE << <<"parent", <<job.doc, 0>>, Row("parent", job, job.n)>> >>
         \o [i \in 1 .. job.n |-> <<"put", <<job.doc, i>>, Row("chunk", job, job.n)>>]

\* delete_document: the children, then the document's own row.
RemoveSteps(job) == DeleteSteps(Children(job.doc)) \o << <<"del", <<job.doc, 0>>, NoRow>> >>

\* get_document: a parent row holds the whole text, chunks of a row that is not a
\* parent are put together again.
GetDocument(d) ==
    LET main == cat[<<d, 0>>]
        kids == Children(d)
        text == IF main.kind = "parent" \/ kids = {} THEN main ELSE cat[FirstOf(kids)]
    IN [op |-> "upsert", doc |-> d, n |-> IF main.kind = "parent" THEN main.of ELSE IF kids = {} THEN 1 ELSE Cardinality(kids),
        ver |-> text.ver, own |-> main.own, hash |-> main.hash]

\* list_documents, then get_document: a document whose own row is missing is left out.
ListDocuments == {d \in Docs : cat[<<d, 0>>].kind # "none"}

Free(t) == writer[t].job.op = "none" /\ writer[t].left = <<>>
Queue(t, jobs) ==
    /\ Free(t) /\ writes < MaxWrites
    /\ writes' = writes + 1
    /\ writer' = [writer EXCEPT ![t] = [Resting EXCEPT !.left = jobs]]
    /\ UNCHANGED <<cat, vec, query, searches, last>>

\* _should_chunk and chunk_document: a short text is one piece, a longer one some chunks.
ChunkDocument == 1 .. MaxChunks

\* POST /documents, with or without a session.
UpsertDocument(t) ==
    \E d \in Docs, n \in ChunkDocument, own \in Scopes :
        Queue(t, << [op |-> "upsert", doc |-> d, n |-> n, ver |-> writes + 1, own |-> own, hash |-> 0] >>)

DeleteDocument(t) ==
    \E d \in Docs : Queue(t, << [NoJob EXCEPT !.op = "delete", !.doc = d] >>)

\* delete_by_session: the documents that a row of the session names.
DeleteBySession(t) ==
    \E own \in Owners :
        LET docs == {r[1] : r \in {q \in Rows : cat[q].kind # "none" /\ cat[q].own = own}}
            seq == SetToSeq(docs)
        IN Queue(t, [i \in DOMAIN seq |-> [NoJob EXCEPT !.op = "delete", !.doc = seq[i]]])

\* A changed embedding model: every document is read, then written again.
ReindexCollection(t) ==
    LET seq == SetToSeq(ListDocuments)
    IN Queue(t, [i \in DOMAIN seq |-> GetDocument(seq[i])])

\* ensure_builtin_knowledge at the start of the process: the upload is skipped when
\* the stored row carries the digest of the text (here: version 0, digest 1).
Seed == [op |-> "upsert", doc |-> Builtin, n |-> MaxChunks, ver |-> 0, own |-> Shared, hash |-> 1]
SeedJobs(rows) == IF rows[<<Builtin, 0>>].hash = 1 THEN <<>> ELSE << Seed >>

-----------------------------------------------------------------------------
(* Running a write *)

Overlap(t, d) == {u \in Threads \ {t} : writer[u].job.op # "none" /\ writer[u].job.doc = d}

\* The next document of the request: the steps are laid out from the catalogue as it is.
BeginJob(t) ==
    /\ writer[t].job.op = "none" /\ writer[t].left # <<>>
    /\ LET job == Head(writer[t].left)
           others == Overlap(t, job.doc)
       IN /\ writer' = [u \in Threads |->
               IF u = t THEN [job |-> job, left |-> Tail(writer[t].left), alone |-> others = {},
                              todo |-> IF job.op = "upsert" THEN UpsertSteps(job) ELSE RemoveSteps(job)]
               ELSE IF u \in others THEN [writer[u] EXCEPT !.alone = FALSE] ELSE writer[u]]
          /\ last' = [last EXCEPT ![job.doc] = NoJob]
          /\ query' = [query EXCEPT !.sure = @ \ {job.doc}]
    /\ UNCHANGED <<cat, vec, writes, searches>>

Rest(t, more) == writer' = [writer EXCEPT ![t].todo = more \o Tail(@)]

\* _delete_row: the index is asked to forget a row only when the catalogue had it.
DeleteRow(t) ==
    /\ writer[t].todo # <<>> /\ Head(writer[t].todo)[1] = "del"
    /\ LET r == Head(writer[t].todo)[2]
       IN /\ cat' = [cat EXCEPT ![r] = NoRow]
          /\ Rest(t, IF cat[r].kind = "none" THEN <<>> ELSE << <<"unindex", r, NoRow>> >>)
    /\ UNCHANGED <<vec, query, writes, searches, last>>

\* _upsert_row: the catalogue first, then, in a step of its own, the index.
UpsertRow(t) ==
    /\ writer[t].todo # <<>> /\ Head(writer[t].todo)[1] \in {"put", "parent"}
    /\ LET step == Head(writer[t].todo)
       IN /\ cat' = [cat EXCEPT ![step[2]] = step[3]]
          /\ Rest(t, IF step[1] = "put" THEN << <<"index", step[2], step[3]>> >> ELSE <<>>)
    /\ UNCHANGED <<vec, query, writes, searches, last>>

\* The index stores the row's embedding with its metadata, or forgets it.
IndexRow(t) ==
    /\ writer[t].todo # <<>> /\ Head(writer[t].todo)[1] = "index"
    /\ vec' = [vec EXCEPT ![Head(writer[t].todo)[2]] = Head(writer[t].todo)[3]]
    /\ Rest(t, <<>>)
    /\ UNCHANGED <<cat, query, writes, searches, last>>

UnindexRow(t) ==
    /\ writer[t].todo # <<>> /\ Head(writer[t].todo)[1] = "unindex"
    /\ vec' = [vec EXCEPT ![Head(writer[t].todo)[2]] = NoRow]
    /\ Rest(t, <<>>)
    /\ UNCHANGED <<cat, query, writes, searches, last>>

EndJob(t) ==
    /\ writer[t].job.op # "none" /\ writer[t].todo = <<>>
    /\ last' = [last EXCEPT ![writer[t].job.doc] = IF writer[t].alone THEN writer[t].job ELSE NoJob]
    /\ writer' = [writer EXCEPT ![t] = [Resting EXCEPT !.left = writer[t].left]]
    /\ UNCHANGED <<cat, vec, query, writes, searches>>

\* The database is locked or the index cannot be reached: the request is answered
\* with an error and what it has already written stays.
FailWrite(t) ==
    /\ writer[t].job.op # "none" /\ writer[t].todo # <<>>
    /\ writer' = [writer EXCEPT ![t] = Resting]
    /\ UNCHANGED <<cat, vec, query, writes, searches, last>>

\* The process ends and starts again: the start seeds the builtin document.
Restart ==
    /\ writes < MaxWrites /\ writes' = writes + 1
    /\ \E t \in Threads : writer' = [u \in Threads |->
            IF u = t THEN [Resting EXCEPT !.left = SeedJobs(cat)] ELSE Resting]
    /\ query' = NoQuery
    /\ UNCHANGED <<cat, vec, searches, last>>

-----------------------------------------------------------------------------
(* Searching *)

\* _session_matches: a document of no session is seen by all, and a search outside
\* of a session sees only those.
SessionMatches(row, own) == row.own = Shared \/ row.own = own

VectorHits(own) == {r \in Rows : vec[r].kind # "none" /\ SessionMatches(vec[r], own)}
KeywordHits(own) == {r \in Stored({"single", "chunk"}) : SessionMatches(cat[r], own)}

Hit(r, row) == [row |-> r, own |-> row.own, kind |-> row.kind]
Group(hit) == hit.row[1]

\* _rrf_merge: one entry a row, the keyword hit's text before the vector hit's.
RrfMerge(byVector, byKeyword) ==
    {Hit(r, IF r \in byKeyword THEN cat[r] ELSE vec[r]) : r \in byVector \cup byKeyword}

\* rerank and the relevance gate: the hits that are not stale and score well enough,
\* in any order, cut at TopK.
Rerank(hits) == {s \in UNION {[1 .. n -> hits] : n \in 0 .. TopK} : IsInjective(s)}

\* _limit_per_doc: no more than the first PerDoc hits of a document are left.
LimitPerDoc(hits) ==
    \A d \in Docs : Cardinality({i \in DOMAIN hits : Group(hits[i]) = d}) <= PerDoc

FirstHits(hits) == SubSeq(hits, 1, IF Len(hits) < TopK THEN Len(hits) ELSE TopK)

\* _finalize_hits up to the expansion: what the limit drops was not ranked either, in
\* one of the orders.
Rankings(hits) == {s \in Rerank(hits) : LimitPerDoc(s)}

\* The last write of the document ended well, and no chunk that it has no more was
\* left in the index by a deletion that failed between the stores.
NoneLeft(d) ==
    /\ last[d].op # "none"
    /\ \A n \in 1 .. MaxChunks : vec[<<d, n>>].kind # "none" => cat[<<d, n>>].kind # "none"

HybridSearch ==
    /\ query.pc # "expand" /\ searches < MaxSearches
    /\ \E own \in Scopes : \E v \in SUBSET VectorHits(own), k \in SUBSET KeywordHits(own) :
        \E hits \in Rankings(RrfMerge(v, k)) :
            query' = [NoQuery EXCEPT !.pc = "expand", !.own = own, !.hits = hits,
                                     !.sure = {d \in Docs : NoneLeft(d)}]
    /\ searches' = searches + 1
    /\ UNCHANGED <<cat, vec, writer, writes, last>>

Seen(r) == \E hits \in {query.hits, query.near} : \E i \in DOMAIN hits : hits[i].row = r
Expanding == query.pc = "expand" /\ query.rank <= MaxRank /\ query.rank \in DOMAIN query.hits

\* _expand_adjacent_chunks: a hit whose score is too low, or that is no chunk.
SkipHit ==
    /\ Expanding /\ query.offset = -1
    /\ query' = [query EXCEPT !.rank = @ + 1]
    /\ UNCHANGED <<cat, vec, writer, writes, searches, last>>

\* The chunks before and after one of the best chunks are read from the catalogue, by
\* their number and one by one, and put behind the hits.
ReadNeighbour ==
    /\ Expanding /\ query.hits[query.rank].kind = "chunk"
    /\ LET n == query.hits[query.rank].row[2] + query.offset
           r == <<Group(query.hits[query.rank]), n>>
           read == n \in 1 .. MaxChunks /\ cat[r].kind = "chunk" /\ ~ Seen(r)
       IN query' = [query EXCEPT !.near = IF read THEN Append(@, Hit(r, cat[r])) ELSE @,
                                 !.rank = IF query.offset = 1 THEN @ + 1 ELSE @,
                                 !.offset = - @]
    /\ UNCHANGED <<cat, vec, writer, writes, searches, last>>

\* The answer, as long as there is room.
ReturnHits ==
    /\ query.pc = "expand" /\ ~ Expanding
    /\ query' = [NoQuery EXCEPT !.pc = "done", !.own = query.own, !.sure = query.sure,
                                !.hits = FirstHits(query.hits \o query.near)]
    /\ UNCHANGED <<cat, vec, writer, writes, searches, last>>

-----------------------------------------------------------------------------
\* The process has started and has seeded its builtin document.
SeededRow(r) ==
    IF r[1] # Builtin THEN NoRow
    ELSE Row(IF r[2] > 0 THEN "chunk" ELSE "parent", Seed, MaxChunks)

KnowledgeInit ==
    /\ cat = [r \in Rows |-> SeededRow(r)]
    /\ vec = [r \in Rows |-> IF SeededRow(r).kind = "chunk" THEN SeededRow(r) ELSE NoRow]
    /\ writer = [t \in Threads |-> Resting]
    /\ query = NoQuery /\ writes = 0 /\ searches = 0
    /\ last = [d \in Docs |-> IF d = Builtin THEN Seed ELSE NoJob]

KnowledgeNext ==
    \/ \E t \in Threads : \/ UpsertDocument(t) \/ DeleteDocument(t) \/ DeleteBySession(t) \/ ReindexCollection(t)
                          \/ BeginJob(t) \/ DeleteRow(t) \/ UpsertRow(t) \/ IndexRow(t) \/ UnindexRow(t) \/ EndJob(t) \/ FailWrite(t)
    \/ Restart
    \/ HybridSearch \/ SkipHit \/ ReadNeighbour \/ ReturnHits

KnowledgeSpec == KnowledgeInit /\ [][KnowledgeNext]_knowVars

-----------------------------------------------------------------------------
(* A write that ran to its end with no other write of the document beside it leaves
   the catalogue with exactly its rows, and each row that a search may return with
   its vector: what a failed write, a crash or a longer text left before is gone.
   (knowledge_store.upsert_document, delete_document) *)
WriteHeals ==
    \A d \in Docs : LET job == last[d] IN
        /\ job.op = "delete" => \A n \in 0 .. MaxChunks : cat[<<d, n>>].kind = "none"
        /\ job.op = "upsert" =>
            \A n \in 0 .. MaxChunks :
                LET row == cat[<<d, n>>] IN
                /\ row.kind = (IF n = 0 THEN (IF job.n = 1 THEN "single" ELSE "parent")
                               ELSE IF job.n > 1 /\ n <= job.n THEN "chunk" ELSE "none")
                /\ row.kind \in {"single", "chunk"} => row.ver = job.ver /\ vec[<<d, n>>] = row

(* A search answers with rows that its session may see, no row twice: a row of another
   session can only be the neighbour of a chunk whose document was half written, was
   written again since the recall, or has left a vector of a chunk that is gone.
   (knowledge_store.hybrid_search, _expand_adjacent_chunks) *)
HitsInScope ==
    /\ \A i, j \in DOMAIN query.hits : query.hits[i].row = query.hits[j].row => i = j
    /\ \A i \in DOMAIN query.hits : Group(query.hits[i]) \in query.sure => SessionMatches(query.hits[i], query.own)

(* The same of every document that was written well since ("Session-scoped
   retrieval context", session_scope.py).
   Does not hold: the neighbours of a vector that a failed deletion left are read by
   their number, whoever's they are. *)
HealedInScope ==
    [][ReturnHits => \A i \in DOMAIN query'.hits :
          last[Group(query'.hits[i])].op # "none" => SessionMatches(query'.hits[i], query.own)]_knowVars

(* A start that skips the builtin document skips a whole one, whatever the last process
   had written of it ("safe on every startup", knowledge_seed.ensure_builtin_knowledge).
   Does not hold: the digest is stored before the chunks. *)
SeedSkipsWhole ==
    [][Restart /\ SeedJobs(cat) = <<>> => \A n \in 1 .. MaxChunks : cat[<<Builtin, n>>].kind = "chunk"]_knowVars
=============================================================================
