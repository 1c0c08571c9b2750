------------------------------- MODULE RagStore -------------------------------
(***************************************************************************)
(* The document store of src/src/nousergon_lib/rag/: ingestion into        *)
(* Postgres and, best effort, into the parquet mirror (retrieval.py,       *)
(* parquet_mirror.py, db.py, schema.sql); batch readers that page through  *)
(* the mirror (local_ann.py); hybrid search and its reranker (retrieval.py,*)
(* rerank.py).                                                             *)
(*                                                                         *)
(* A document has one chunk or none, and every search sees it under the    *)
(* scores its text has for the query.  Postgres, S3, the embedding and the *)
(* cross-encoder models, and the jobs that call are external.              *)
(***************************************************************************)
EXTENDS Integers, Sequences, FiniteSets, FiniteSetsExt, Functions, Lists

CONSTANTS
    Ingests,            \* the ingestion jobs
    ArticleOf,          \* job -> [slot, news, ext, chunks, filed, text, mirrors]
    Queries,
    Closeness, Matches, \* query -> text -> cosine, counted up from -1; rank, 0 for no match
    Judgement,          \* query -> text -> the cross-encoder's score
    Finer, Decimals,    \* units of those to a decimal that is shown, and decimals to one
    VectorWeight, WeightScale,  \* vector_weight, as a fraction
    TopK, RerankInput, CacheSize, KeyPage,
    FiledFrom,          \* the oldest filing a batch reader asks for
    RagFaults, RagRetries

(* The document type is one of the columns of a slot.                      *)
ASSUME RagAssumption ==
    /\ {TopK, RerankInput, CacheSize} \subseteq Nat /\ RerankInput >= TopK
    /\ {KeyPage, Finer, WeightScale} \subseteq Nat \ {0} /\ Decimals \in Nat
    /\ VectorWeight \in 0 .. WeightScale
    /\ \A q \in Queries, j \in Ingests :
          LET text == ArticleOf[j].text
          IN  Closeness[q][text] \in Nat /\ Matches[q][text] \in Nat /\ Judgement[q][text] \in Int
    /\ \A j \in Ingests : ArticleOf[j].filed \in Nat /\ ArticleOf[j].news \in BOOLEAN
    /\ \A j, k \in Ingests : ArticleOf[j].slot = ArticleOf[k].slot
                                => ArticleOf[j].news = ArticleOf[k].news

VARIABLES
    documents,  \* the rows of rag.documents, each with its chunks
    mirror,     \* the ids of the documents in the parquet tier
    ingest,     \* job -> where it is and the id it was returned
    corpus,     \* the batch reader: its listing, page by page
    search,     \* the search under way
    scores,     \* the reranker's cache, least recently used first
    gaps,       \* ids whose mirror write failed, or whose job ended before it
    looked,     \* job -> the ids there when it asked for duplicates
    ragFaults, ragRetries

ragVars == <<documents, mirror, ingest, corpus, search, scores, gaps, looked, ragFaults,
             ragRetries>>
ingesting == <<documents, mirror, ingest, gaps, looked, ragRetries>>
reading == <<corpus, search, scores>>

IdleIngest == [pc |-> "idle", id |-> 0]
IdleCorpus == [pc |-> "idle", keys |-> {}, from |-> <<0, 0>>, there |-> {}]
IdleSearch == [pc |-> "idle", query |-> "none", method |-> "none", rerank |-> FALSE, vector |-> <<>>, keyword |-> <<>>,
               results |-> <<>>]
Methods == {"vector", "keyword", "hybrid"}

RagInit ==
    /\ documents = <<>> /\ mirror = {} /\ gaps = {} /\ scores = <<>>
    /\ ingest = [j \in Ingests |-> IdleIngest] /\ looked = [j \in Ingests |-> {}]
    /\ corpus = IdleCorpus /\ search = IdleSearch
    /\ ragFaults = 0 /\ ragRetries = 0

RagCharge(bad) == /\ bad => ragFaults < RagFaults
                  /\ ragFaults' = IF bad THEN ragFaults + 1 ELSE ragFaults
IngestAt(j, pc) == ingest' = [ingest EXCEPT ![j].pc = pc]

-----------------------------------------------------------------------------
(* Ingestion.                                                              *)

BeginIngest(j) ==
    /\ \/ ingest[j].pc = "idle" /\ UNCHANGED ragRetries
       \/ /\ ingest[j].pc \in {"raised", "killed", "skipped"} /\ ragRetries < RagRetries
          /\ ragRetries' = ragRetries + 1
    /\ ingest' = [ingest EXCEPT ![j] = [IdleIngest EXCEPT !.pc = "check"]]
    /\ UNCHANGED <<documents, mirror, gaps, looked, reading, ragFaults>>

(* Mutant: the article's own identity is left out of the question.         *)
SameSlotOnly(row, article) == row.slot = article.slot

(* The rows a duplicate check answers with: by the article's identity when *)
(* it has one, by the four columns otherwise.                              *)
DocumentExists(row, article) ==
    row.slot = article.slot /\ (article.ext # "none" => row.ext = article.ext)

CheckDuplicate(j, ok) ==
    /\ ingest[j].pc = "check"
    /\ looked' = [looked EXCEPT ![j] = DOMAIN documents]
    /\ IngestAt(j, CASE ~ok -> "raised"
                     [] OTHER -> IF \E i \in DOMAIN documents :
                                       DocumentExists(documents[i], ArticleOf[j])
                                 THEN "skipped" ELSE "insert")
    /\ RagCharge(~ok)
    /\ UNCHANGED <<documents, mirror, gaps, reading, ragRetries>>

(* The two partial unique indexes: a null identity equals no other.        *)
Conflicts(row, article) ==
    /\ row.slot = article.slot /\ row.news = article.news
    /\ article.news => article.ext # "none" /\ row.ext = article.ext

(* One transaction: the row and its chunks.  A conflict or a refusal raises*)
(* and leaves nothing; a lost commit raises and leaves both.               *)
InsertDocument(j, o) ==
    /\ ingest[j].pc = "insert"
    /\ LET a == ArticleOf[j]
           conflict == \E i \in DOMAIN documents : Conflicts(documents[i], a)
           id == Len(documents) + 1
       IN  /\ conflict => o = "ok"
           /\ IF conflict \/ o = "refused"
              THEN IngestAt(j, "raised") /\ UNCHANGED <<documents, gaps>>
              ELSE /\ documents' = Append(documents,
                          [slot |-> a.slot, news |-> a.news, ext |-> a.ext, chunks |-> a.chunks,
                           filed |-> a.filed, text |-> a.text, by |-> j, saw |-> looked[j]])
                   /\ gaps' = IF o = "lost" THEN gaps \cup {id} ELSE gaps
                   /\ ingest' = [ingest EXCEPT ![j] =
                          [pc |-> CASE o = "lost" -> "raised"
                                    [] OTHER -> IF a.mirrors THEN "mirror" ELSE "returned",
                           id |-> IF o = "lost" THEN 0 ELSE id]]
    /\ RagCharge(o # "ok")
    /\ UNCHANGED <<mirror, looked, reading, ragRetries>>

(* The mirror: nothing for a document without chunks; a failure is logged, *)
(* and the id is returned all the same.                                    *)
MirrorDocument(j, o) ==
    /\ ingest[j].pc = "mirror"
    /\ LET id == ingest[j].id
           empty == documents[id].chunks = 0
       IN  /\ empty => o = "ok"
           /\ mirror' = IF empty \/ o = "refused" THEN mirror ELSE mirror \cup {id}
           /\ gaps' = IF o = "ok" THEN gaps ELSE gaps \cup {id}
    /\ IngestAt(j, "returned")
    /\ RagCharge(o # "ok")
    /\ UNCHANGED <<documents, looked, reading, ragRetries>>

KillIngest(j) ==
    /\ ingest[j].pc \in {"check", "insert", "mirror"}
    /\ ingest' = [ingest EXCEPT ![j] = [IdleIngest EXCEPT !.pc = "killed"]]
    /\ gaps' = IF ingest[j].pc = "mirror" THEN gaps \cup {ingest[j].id} ELSE gaps
    /\ RagCharge(TRUE)
    /\ UNCHANGED <<documents, mirror, looked, reading, ragRetries>>

-----------------------------------------------------------------------------
(* The batch reader.                                                       *)

(* Keys are ordered by partition, here the filing's date, then by id.      *)
MirrorKey(id) == <<documents[id].filed, id>>
KeyBefore(a, b) == a[1] < b[1] \/ (a[1] = b[1] /\ a[2] < b[2])

BeginListing ==
    /\ corpus.pc \in {"idle", "loaded"}
    /\ corpus' = [IdleCorpus EXCEPT !.pc = "listing", !.there = mirror]
    /\ UNCHANGED <<ingesting, search, scores, ragFaults>>

NextPage == LET after == {id \in mirror : KeyBefore(corpus.from, MirrorKey(id))}
            IN  {id \in after : Cardinality({k \in after : KeyBefore(MirrorKey(k), MirrorKey(id))})
                                    < KeyPage}

(* A page of keys; those filed too early are left out; the listing ends    *)
(* with a page nothing follows.                                            *)
ListPage ==
    /\ corpus.pc = "listing"
    /\ LET page == NextPage
           last == CHOOSE id \in page : \A k \in page : ~KeyBefore(MirrorKey(id), MirrorKey(k))
           truncated == page # {} /\ \E id \in mirror : KeyBefore(MirrorKey(last), MirrorKey(id))
       IN  corpus' = [corpus EXCEPT
               !.keys = @ \cup {id \in page : documents[id].filed >= FiledFrom},
               !.from = IF truncated THEN MirrorKey(last) ELSE @,
               !.pc = IF truncated THEN "listing" ELSE "loaded"]
    /\ UNCHANGED <<ingesting, search, scores, ragFaults>>

-----------------------------------------------------------------------------
(* Search.                                                                 *)

BeginSearch(query, method, rerank) ==
    /\ search.pc \in {"idle", "answered"}
    /\ search' = [IdleSearch EXCEPT !.pc = IF method = "keyword" THEN "keyword" ELSE "vector",
                      !.query = query, !.method = method, !.rerank = rerank]
    /\ UNCHANGED <<ingesting, corpus, scores, ragFaults>>

RetrieveK == IF search.rerank THEN RerankInput ELSE TopK

Cut(list, limit) == SubSeq(list, 1, Min({limit, Len(list)}))

(* A stable sort, the highest score first.                                 *)
Ahead(list, score, i, j) ==
    \/ score[list[i]] > score[list[j]]
    \/ score[list[i]] = score[list[j]] /\ i < j
Ranked(list, score) ==
    LET Above(i) == Cardinality({j \in DOMAIN list : Ahead(list, score, j, i)})
    IN  [n \in DOMAIN list |-> list[CHOOSE i \in DOMAIN list : Above(i) = n - 1]]

Best(score) == Cut(Ranked(Among([id \in DOMAIN documents |-> id], DOMAIN score), score), RetrieveK)

Chunked == {id \in DOMAIN documents : documents[id].chunks > 0}
Cosine(ids) == [id \in ids |-> Closeness[search.query][documents[id].text]]
Rank(ids)   == [id \in ids |-> Matches[search.query][documents[id].text]]
Matching    == {id \in Chunked : Rank(Chunked)[id] > 0}

VectorSearch ==
    /\ search.pc = "vector"
    /\ search' = [search EXCEPT !.pc = IF search.method = "hybrid" THEN "keyword" ELSE "ranked",
                     !.vector = Best(Cosine(Chunked))]
    /\ UNCHANGED <<ingesting, corpus, scores, ragFaults>>

KeywordSearch ==
    /\ search.pc = "keyword"
    /\ search' = [search EXCEPT !.pc = "ranked",
                     !.keyword = Best(Rank(Matching))]
    /\ UNCHANGED <<ingesting, corpus, scores, ragFaults>>

(* Min-max over one side's candidates, in units of its spread: candidates  *)
(* that all score the same are all best, a missing one is worth nothing.   *)
Spread(score) == IF DOMAIN score = {} THEN 0 ELSE Max(Range(score)) - Min(Range(score))
Unit(score)   == Max({1, Spread(score)})
Normalized(score, id) ==
    CASE id \notin DOMAIN score -> 0
      [] OTHER -> IF Spread(score) = 0 THEN 1 ELSE score[id] - Min(Range(score))

(* A side is ordered by its scores; what it tells of them, and the blend   *)
(* normalizes, is rounded, as the blended score is before the sort.        *)
Rounded(a, b) == (2 * a + b) \div (2 * b)
Shown(score)  == [id \in DOMAIN score |-> Rounded(score[id], Finer)]

Blended(vector, keyword, id) ==
    LET vs == Shown(Cosine(Range(vector)))
        ks == Shown(Rank(Range(keyword)))
    IN  Rounded(Decimals * (VectorWeight * Normalized(vs, id) * Unit(ks)
                            + (WeightScale - VectorWeight) * Normalized(ks, id) * Unit(vs)),
                WeightScale * Unit(vs) * Unit(ks))

SimilarityOf(id) ==
    CASE search.method = "vector" -> Shown(Cosine({id}))[id]
      [] search.method = "keyword" -> Shown(Rank({id}))[id]
      [] OTHER -> Blended(search.vector, search.keyword, id)

(* The union of the two lists, the vector side first among equals.         *)
Blend(vector, keyword) ==
    LET union == vector \o Among(keyword, Range(keyword) \ Range(vector))
    IN  Cut(Ranked(union, [id \in Range(union) |-> Blended(vector, keyword, id)]), RetrieveK)

(* Mutant: one chunk has one score, whatever was asked.                    *)
KeyOfChunk(query, id) == <<"any", id>>

CacheKeyOf(query, id) == <<query, id>>

Cached(key)   == \E i \in DOMAIN scores : scores[i].key = key
ScoreOf(cache, key) == cache[CHOOSE i \in DOMAIN cache : cache[i].key = key].score

Judged(id) == Judgement[search.query][documents[id].text]
StampOf(id) == LET key == CacheKeyOf(search.query, id)
               IN  IF Cached(key) THEN ScoreOf(scores, key) ELSE Judged(id)

(* Hits are read and moved to the recent end, then the model's scores of   *)
(* the others are put, the oldest entries giving way.                      *)
Recached(ids) ==
    LET KeyOf(id) == CacheKeyOf(search.query, id)
        Entries(list) == [n \in DOMAIN list |-> [key |-> KeyOf(list[n]), score |-> StampOf(list[n])]]
        hits == {id \in Range(ids) : Cached(KeyOf(id))}
        rest == {e \in Range(scores) : \A id \in hits : e.key # KeyOf(id)}
        full == Among(scores, rest) \o Entries(Among(ids, hits)) \o Entries(Among(ids, Range(ids) \ hits))
    IN  SubSeq(full, Max({1, Len(full) - CacheSize + 1}), Len(full))

(* retrieve: the blend, reranked if asked, cut to the caller's limit.      *)
Retrieve ==
    /\ search.pc = "ranked"
    /\ LET found == CASE search.method = "vector" -> search.vector
                      [] search.method = "keyword" -> search.keyword
                      [] OTHER -> Blend(search.vector, search.keyword)
           ids == IF ~search.rerank THEN found
                  ELSE Cut(Ranked(found, [id \in Range(found) |-> StampOf(id)]), TopK)
       IN  /\ search' = [search EXCEPT !.pc = "answered",
                 !.results = [n \in DOMAIN ids |->
                     [id |-> ids[n], similarity |-> SimilarityOf(ids[n]),
                      stamp |-> IF search.rerank THEN StampOf(ids[n]) ELSE 0]]]
           /\ scores' = IF search.rerank THEN Recached(found) ELSE scores
    /\ UNCHANGED <<ingesting, corpus, ragFaults>>

RagNext ==
    \/ \E j \in Ingests :
          \/ BeginIngest(j) \/ KillIngest(j)
          \/ \E ok \in BOOLEAN : CheckDuplicate(j, ok)
          \/ \E o \in {"ok", "refused", "lost"} : InsertDocument(j, o) \/ MirrorDocument(j, o)
    \/ BeginListing \/ ListPage
    \/ \E query \in Queries, method \in Methods, rerank \in BOOLEAN :
          BeginSearch(query, method, rerank)
    \/ VectorSearch \/ KeywordSearch \/ Retrieve

RagSpec == RagInit /\ [][RagNext]_ragVars

-----------------------------------------------------------------------------
(* Properties.                                                             *)

SameDocument(a, b) == a.slot = b.slot /\ (a.news => a.ext = b.ext)

(* One row per document, whatever is retried, killed or told to have failed*)
(* after its commit: a second row of the same document is news without an  *)
(* identity of its own, from a job that had asked for duplicates before    *)
(* the first row was there.  And no article of the day is taken for        *)
(* another: a job whose article has its own identity is turned away only   *)
(* by a row of that very article.                                          *)
OneRowPerDocument ==
    /\ \A a, b \in DOMAIN documents : (a < b /\ SameDocument(documents[a], documents[b])) =>
          documents[b].news /\ documents[b].ext = "none" /\ a \notin documents[b].saw
    /\ \A j \in Ingests : (ingest[j].pc = "skipped" /\ ArticleOf[j].ext # "none") =>
          \E i \in DOMAIN documents : SameDocument(documents[i], ArticleOf[j])

(* The mirror holds only committed documents, and lacks one only if the    *)
(* document has no chunks, was not to be mirrored, is about to be, or is a *)
(* known gap: a mirror write or a commit that failed, or a job that died   *)
(* between the two.  A batch reader gets what was mirrored when it began,  *)
(* over all pages, and nothing that is not.                                *)
MirrorGapIsExplained ==
    /\ mirror \subseteq DOMAIN documents
    /\ \A i \in DOMAIN documents \ mirror :
          \/ documents[i].chunks = 0 \/ ~ArticleOf[documents[i].by].mirrors \/ i \in gaps
          \/ \E j \in Ingests : ingest[j].pc = "mirror" /\ ingest[j].id = i
    /\ corpus.pc = "loaded" =>
          /\ {i \in corpus.there : documents[i].filed >= FiledFrom} \subseteq corpus.keys
          /\ corpus.keys \subseteq {i \in mirror : documents[i].filed >= FiledFrom}

SideScore(score, id) == IF id \in DOMAIN score THEN score[id] ELSE -1

VectorScore(id)  == SideScore(Cosine(Range(search.vector)), id)
KeywordScore(id) == SideScore(Rank(Range(search.keyword)), id)

(* a is ahead of b on one side, and not behind on the other.               *)
Dominates(a, b) ==
    /\ VectorScore(a) >= VectorScore(b) /\ KeywordScore(a) >= KeywordScore(b)
    /\ VectorScore(a) > VectorScore(b) \/ KeywordScore(a) > KeywordScore(b)

(* Two the vector side cannot tell apart stay as it had them, if rounding, *)
(* or the weight, leaves their blended scores the same.                    *)
Tied(a, b) ==
    /\ VectorScore(a) = VectorScore(b) /\ VectorScore(b) >= 0
    /\ SimilarityOf(a) = SimilarityOf(b)

(* What a search returns is ranked by scores of its own: a reranked answer *)
(* carries the model's scores for this query and is sorted by them, cached *)
(* or not; another is sorted by the similarity it shows, and puts no chunk *)
(* before one that beats it on both sides, nor leaves the better one out,  *)
(* but for the ties above, whatever the rounding did to them.              *)
RankedByOwnScores ==
    search.pc = "answered" =>
        LET r == search.results
        IN  IF search.rerank
            THEN /\ \A n \in DOMAIN r : r[n].stamp = Judged(r[n].id)
                 /\ \A m, n \in DOMAIN r : m < n => r[m].stamp >= r[n].stamp
            ELSE /\ \A m, n \in DOMAIN r : m < n => r[m].similarity >= r[n].similarity
                 /\ \A n \in DOMAIN r : \A id \in Range(search.vector) \cup Range(search.keyword) :
                       Dominates(id, r[n].id) => \/ \E m \in 1 .. n - 1 : r[m].id = id
                                                 \/ Tied(id, r[n].id)

(* The rows hold a document once, and the mirror what the rows hold.       *)
CorpusIsConsistent == OneRowPerDocument /\ MirrorGapIsExplained
=============================================================================
