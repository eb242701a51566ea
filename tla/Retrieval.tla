------------------------------ MODULE Retrieval ------------------------------
(***************************************************************************)
(* Documentation query and semantic search (internal/search/service.go:    *)
(* Query, SemanticSearch and what they call), one request against a        *)
(* repository that is reindexed, an OpenSearch and a vector database that  *)
(* follow it late, and an embedding model that can be replaced meanwhile.  *)
(*                                                                         *)
(* A ref holds two chunks: "word" shares a term with the query, "near"     *)
(* only its meaning.  A chunk's id changes when its content does (a new    *)
(* generation), its vector when the model does.  Scores, ranking, limits   *)
(* and reranking reorder or trim hits and are left out.  The settings are  *)
(* loaded by each who needs them, and a setting that cannot be read is     *)
(* taken for one that is not there.                                        *)
(***************************************************************************)
EXTENDS Naturals, FiniteSets

CONSTANTS MaxGen,     \* generations of the ref's content
          MaxModel,   \* embedding models, in the order they are configured
          None

Modes == {"keyword-only", "hybrid-fallback", "hybrid-required"}

Settings == {"search", "model"}

\* What a live query of the source comes to: "withheld" is an answer of which
\* safeSourceHits leaves nothing (no path, an empty snippet, a private key), or no error
\* and nobody asked (no connectors, or an adapter without code search); "refused" a
\* connector that is paused or not configured.
Outcomes == {"hits", "empty", "withheld", "failed", "refused"}

\* What a query of the vector database comes to: "none" is one that is not configured or
\* fails, and "unfiltered" one made while the model setting could not be read, for any
\* revision.
Searches == {"found", "unfiltered", "none"}

VARIABLES cfg,        \* what the administrator configured, and the ref asked for
          model,      \* the embedding model configured now
          idx,        \* the ref in the database: generation and vector revision, 0 for none
          os,         \* the generation OpenSearch holds; 0 when it is not configured
          vec,        \* what the vector database holds
          readable,   \* the caller may read the repository
          req

vars == <<cfg, model, idx, os, vec, readable, req>>

NoReq == [pc |-> "none", kind |-> None, mode |-> None, minimum |-> FALSE,
          rev |-> 0,           \* the revision vectors have to be of, 0 for any
          vectors |-> FALSE, live |-> FALSE, remote |-> None, cand |-> {}, hits |-> {},
          qrev |-> 0, from |-> None, notes |-> {},
          gave |-> None,       \* history: what the source gave when it was asked
          unread |-> {},       \* history: the settings that could not be read
          changed |-> FALSE]   \* history: the model was replaced under the request

\* A mode without embeddings has no use for their weight, nor without it for a minimum.
Init == /\ cfg \in [mode : Modes, weight : BOOLEAN, minimum : BOOLEAN, otherRef : BOOLEAN]
        /\ cfg.mode = "keyword-only" => cfg.weight /\ cfg.minimum
        /\ cfg.weight \/ cfg.minimum
        /\ model = 1 /\ os = 0
        /\ idx = [gen |-> 0, rev |-> 0] /\ vec = idx
        /\ readable \in BOOLEAN
        /\ req = NoReq

UNCHANGED_WORLD == UNCHANGED <<cfg, model, idx, os, vec, readable>>
To(r) == req' = r /\ UNCHANGED_WORLD
Done(r, from, notes) == [r EXCEPT !.pc = "done", !.from = from, !.notes = @ \cup notes]

-----------------------------------------------------------------------------
(* The steps both operations share.                                        *)

\* searchConfig: without a search setting the fallback mode, and without a model of its own
\* no embeddings unless they are required.
LoadedMode(unread) ==
    IF "model" \in unread /\ ("search" \in unread \/ cfg.mode = "hybrid-fallback") THEN "keyword-only"
    ELSE IF "search" \in unread THEN "hybrid-fallback" ELSE cfg.mode

\* UsesEmbeddings; vectorWeight is .35 unless the search setting says otherwise.
Uses(unread) == LoadedMode(unread) # "keyword-only" /\ (cfg.weight \/ "search" \in unread)

\* The ACL is read with the repository (Query) or with the chunks (SemanticSearch);
\* then the configuration is loaded, once.  Without embeddings the source is
\* asked first; Bitbucket searches no ref but the default one.
Begin(kind, unread) ==
    LET uses == Uses(unread) IN
    /\ req.pc = "none"
    /\ To(IF kind = "query" /\ ~readable THEN Done(NoReq, "denied", {})
          ELSE [NoReq EXCEPT !.kind = kind, !.mode = LoadedMode(unread), !.unread = unread,
                   !.minimum = cfg.minimum \/ "search" \in unread,
                   !.rev = IF "model" \in unread THEN 0 ELSE model,
                   !.vectors = uses, !.live = ~uses,
                   !.notes = IF kind = "semantic" /\ ~uses THEN {"disabled"} ELSE {},
                   !.remote = IF kind = "query" /\ cfg.otherRef THEN "ref" ELSE None,
                   !.pc = IF uses THEN "coverage" ELSE IF kind = "query" THEN "first" ELSE "lexical"])

\* Mutant: any stored vector is compared.
AnyVector(rev) == rev # 0

\* Is a stored vector of the revision asked for.
OfRevision(rev) == rev # 0 /\ req.rev \in {0, rev}

\* The stored coverage counts for nothing when another model produced it; across
\* repositories only what the caller may read is counted.
Covered == idx.gen > 0 /\ OfRevision(idx.rev) /\ (readable \/ req.kind = "query")

\* Mutant: a required mode answers without embeddings.
DegradeAlways(r, note, pc) ==
    [r EXCEPT !.pc = pc, !.vectors = FALSE, !.live = TRUE, !.notes = @ \cup {note}]

\* A required mode fails; any other goes on without vectors and says so.
Degrade(r, note, pc) ==
    IF r.mode = "hybrid-required" THEN Done(r, "error", {})
    ELSE [r EXCEPT !.pc = pc, !.vectors = FALSE, !.live = TRUE, !.notes = @ \cup {note}]

\* minimumEmbeddingCoverage; a coverage that cannot be read is not held against it.
Coverage(unreadable) ==
    LET next == IF req.kind = "query" THEN "first" ELSE "embed" IN
    /\ req.pc = "coverage"
    /\ To(IF ~req.minimum \/ unreadable \/ Covered THEN [req EXCEPT !.pc = next]
          ELSE Degrade(req, "coverage", IF req.kind = "query" THEN "first" ELSE "lexical"))

\* The provider of the model configured now turns the query into a vector; it fails also
\* when the model setting cannot be read.
Embed(fails) ==
    /\ req.pc = "embed"
    /\ To(IF req.kind = "query" /\ ~req.vectors THEN [req EXCEPT !.pc = "answer"]
          ELSE IF fails
               THEN Degrade(req, "embedding", IF req.kind = "query" THEN "answer" ELSE "lexical")
               ELSE [req EXCEPT !.qrev = model, !.pc = IF req.kind = "query" THEN "answer" ELSE "ann"])

-----------------------------------------------------------------------------
(* Query.                                                                  *)

Asked(r, out) == [r EXCEPT !.remote = out, !.gave = out]

\* Mutant: asked once, only the hits are remembered.
ForgetFailure(r, out) ==
    IF r.remote = None THEN Asked(r, out)
    ELSE [r EXCEPT !.remote = IF r.remote = "hits" THEN "hits" ELSE "empty"]

\* remoteDocuments: asked once, hits and error are remembered.
RemoteDocuments(r, out) == IF r.remote = None THEN Asked(r, out) ELSE r

First(out) ==
    LET r == IF req.live THEN RemoteDocuments(req, out) ELSE req IN
    /\ req.pc = "first"
    /\ To(IF req.live /\ r.remote = "hits" THEN Done(r, "source", {})
          ELSE [r EXCEPT !.pc = "keyword"])

\* OpenSearch names chunks of the generation it holds, and PostgreSQL's full text
\* those of the table when it is not configured; a failure is silent.
Keyword(fails) ==
    /\ req.pc = "keyword"
    /\ To([req EXCEPT !.pc = "vector",
             !.cand = IF fails THEN {} ELSE {[gen |-> IF os = 0 THEN idx.gen ELSE os, kind |-> "word", ext |-> 0]}])

\* The vector database compares what it holds of the model configured now; the loader
\* reads the settings again, and without a revision only when embeddings are required.
Nearest(found) ==
    IF vec.gen > 0 /\ (found = "unfiltered" \/ (found = "found" /\ vec.rev = model)) THEN {vec} ELSE {}

MayBeUnfiltered(found) == found = "unfiltered" => cfg.mode = "hybrid-required" /\ cfg.weight

Unread(found) == req.unread \cup (IF found = "unfiltered" THEN {"model"} ELSE {})

\* Its candidates are added to the others, and its scores to their scores.
Vector(found) ==
    /\ req.pc = "vector" /\ MayBeUnfiltered(found)
    /\ To(IF ~req.vectors THEN [req EXCEPT !.pc = "read"]
          ELSE [req EXCEPT !.pc = "read", !.unread = Unread(found),
                  !.cand = @ \cup {[gen |-> v.gen, kind |-> "near", ext |-> v.rev] : v \in Nearest(found)}])

\* The rows behind the candidates; without candidates, the ones that hold a term.
Read ==
    LET word == [gen |-> idx.gen, kind |-> "word", ext |-> 0]
        wanted == IF req.cand = {} THEN {word} ELSE {c \in req.cand : c.gen = idx.gen} IN
    /\ req.pc = "read"
    /\ To([req EXCEPT !.pc = "embed",
             !.hits = IF idx.gen = 0 THEN {}
                      ELSE {[kind |-> c.kind, rev |-> idx.rev, ext |-> c.ext] : c \in wanted}])

\* A vector of another revision than the one loaded at the start scores nothing.
VectorScored(r, h) == r.vectors /\ r.rev \in {0, h.rev}

Kept(r) == {h \in r.hits : h.kind = "word" \/ VectorScored(r, h)}

\* What an answer from the index says of itself: the live search failed, the vectors were
\* not used.  Of the latter nothing is said when vectorWeight is 0.
Remarks(r) ==
    (IF r.remote \in {"failed", "refused", "ref"} THEN {"live"} ELSE {}) \cup
    (IF r.mode = "keyword-only" /\ r.notes \cap {"coverage", "embedding"} = {} THEN {"disabled"} ELSE {})

\* Scoring, and the failover to the source when nothing is left.
Answer(out) ==
    LET r == [req EXCEPT !.hits = Kept(req)]
        f == RemoteDocuments(r, out)
    IN /\ req.pc = "answer"
       /\ To(IF r.hits # {}
             THEN Done(r, "local", Remarks(r))
             ELSE CASE f.remote = "hits" -> Done(f, "source", {})
                    [] f.remote \in {"failed", "ref"} -> Done(f, "error", {})
                    [] f.remote = "refused" -> Done(f, "empty", {"not-asked"})
                    [] OTHER -> Done(f, "empty", {"returned-nothing"}))

-----------------------------------------------------------------------------
(* SemanticSearch.                                                         *)

Near(gen, ext) == IF readable /\ idx.gen > 0 /\ idx.gen = gen /\ OfRevision(idx.rev)
                  THEN {[kind |-> "near", rev |-> idx.rev, ext |-> ext]} ELSE {}

\* The nearest neighbours, then the ACL, scope and revision; what does not
\* survive falls through to the scan.
Ann(found) ==
    LET hits == UNION {Near(v.gen, v.rev) : v \in Nearest(found)} IN
    /\ req.pc = "ann" /\ MayBeUnfiltered(found)
    /\ To(IF hits # {} THEN Done([req EXCEPT !.hits = hits, !.unread = Unread(found)], "local", {})
          ELSE [req EXCEPT !.pc = "scan", !.unread = Unread(found)])

\* The bounded scan of the stored vectors.
Scan == LET hits == Near(idx.gen, 0) IN
        /\ req.pc = "scan"
        /\ To(IF hits # {} THEN Done([req EXCEPT !.hits = hits], "local", {})
              ELSE Degrade(req, "embeddings", "lexical"))

\* lexicalSemanticFallback: the local chunks that hold a term, and the source for
\* the rest when they do not fill the answer, about repositories the caller may read.
Lexical(enough, out) ==
    LET hits == IF readable /\ idx.gen > 0 THEN {[kind |-> "word", rev |-> idx.rev, ext |-> 0]} ELSE {}
        r == [req EXCEPT !.hits = hits, !.vectors = FALSE]
        f == RemoteDocuments(r, IF readable THEN out ELSE "withheld")
    IN /\ req.pc = "lexical" /\ (enough => hits # {})
       /\ To(IF enough THEN Done(r, "local", {"lexical"})
             ELSE IF f.remote \in {"hits", "empty", "withheld"}
                  THEN Done(f, IF hits # {} THEN "local" ELSE IF f.remote = "hits" THEN "source" ELSE "empty",
                            {"lexical"})
                  ELSE IF hits # {} THEN Done(f, "local", {"lexical", "live"}) ELSE Done(f, "error", {}))

-----------------------------------------------------------------------------
(* What happens until the request is done.                                 *)

Running == req.pc # "done"

\* A reindex commits: new content or the same, with vectors of the model or none.
Reindex(gen, rev) ==
    /\ Running
    /\ gen \in {idx.gen, idx.gen + 1} /\ gen \in 1..MaxGen /\ rev \in {0, model}
    /\ idx' = [gen |-> gen, rev |-> rev]
    /\ UNCHANGED <<cfg, model, os, vec, readable, req>>

\* The projections follow on their own (SearchProjection).
Project == /\ Running
           /\ \/ os' = idx.gen /\ UNCHANGED vec
              \/ idx.rev # 0 /\ vec' = idx /\ UNCHANGED os
           /\ UNCHANGED <<cfg, model, idx, readable, req>>

ChangeModel == /\ Running /\ model < MaxModel
               /\ model' = model + 1
               /\ req' = [req EXCEPT !.changed = req.pc # "none"]
               /\ UNCHANGED <<cfg, idx, os, vec, readable>>

Revoke == Running /\ readable /\ readable' = FALSE /\ UNCHANGED <<cfg, model, idx, os, vec, req>>

Next == \/ \E kind \in {"query", "semantic"}, unread \in SUBSET Settings : Begin(kind, unread)
        \/ \E b \in BOOLEAN : Coverage(b) \/ Embed(b) \/ Keyword(b)
        \/ \E found \in Searches : Vector(found) \/ Ann(found)
        \/ \E out \in Outcomes : \/ First(out) \/ Answer(out)
                                 \/ \E enough \in BOOLEAN : Lexical(enough, out)
        \/ Read \/ Scan
        \/ \E gen \in 1..MaxGen, rev \in 0..MaxModel : Reindex(gen, rev)
        \/ Project \/ ChangeModel \/ Revoke

Spec == Init /\ [][Next]_vars

-----------------------------------------------------------------------------
TypeOK == /\ idx.gen \in 0..MaxGen /\ vec.gen \in 0..MaxGen /\ os \in 0..MaxGen
          /\ model \in 1..MaxModel
          /\ req.gave \in Outcomes \cup {None}

Local == req.pc = "done" /\ req.from = "local"

\* The answer says that it did without embeddings.
Degraded == req.notes \cap {"disabled", "coverage", "embedding", "embeddings"} # {}

(* RetrievalHybridRequired makes an embedding outage visible, and           *)
(* RetrievalHybridFallback never degrades in silence: an answer from the    *)
(* index used vectors, or it says that it did not and they are not          *)
(* required, as far as the search setting could be read.  With vectorWeight *)
(* 0 there is nothing to degrade, and nothing is said (UsesEmbeddings).     *)
EmbeddingContract ==
    Local /\ cfg.weight =>
        \/ req.vectors /\ req.qrev # 0
        \/ Degraded /\ (cfg.mode = "hybrid-required" => "search" \in req.unread)

(* "Returned nothing" is never said of a source that failed, was paused or  *)
(* is not configured, nor of a ref it cannot search, also when the query    *)
(* asks twice: no call was refused or failed (remoteDocuments).  It is said *)
(* also of what it returned and safeSourceHits held back, and by an adapter *)
(* that cannot search.                                                      *)
NoMisleadingEmpty ==
    "returned-nothing" \in req.notes => req.gave \in {"empty", "withheld"} /\ ~cfg.otherRef

(* Vectors of two models are never compared (Config.EmbeddingRevision),     *)
(* through a reindex, late projections and their failures, neither of the   *)
(* index nor of the vector database.  Left out are a model that is replaced *)
(* under the query, whose revision is loaded once and its provider later,   *)
(* and a model setting that could not be read for the one and could for the *)
(* other: without a revision every vector is compared.                      *)
SameVectorSpace ==
    Local /\ ~req.changed /\ "model" \notin req.unread =>
        \A h \in req.hits : h.kind = "near" => req.vectors /\ h.rev = req.qrev /\ h.ext \in {0, req.qrev}

(* What comments and messages promise and the code does not keep (README,   *)
(* section 6).                                                               *)

(* The same whatever happens to the model setting under the query.          *)
NeverMixed ==
    Local => \A h \in req.hits : h.kind = "near" => req.vectors /\ h.rev = req.qrev

(* "Instead of silently changing the retrieval contract", and "keyword-only *)
(* never creates or reads embeddings".                                      *)
ModeIsKept ==
    Local => /\ cfg.mode = "hybrid-required" => req.vectors
             /\ cfg.mode = "keyword-only" => ~req.vectors

(* "The ... code search API returned nothing for it either."                *)
ReturnedNothingIsTrue == "returned-nothing" \in req.notes => req.gave = "empty"

(* Query: an external vector database only contributes candidates, "so      *)
(* ranking stays identical whether or not a vector database is configured": *)
(* a chunk that holds a term of the query is not lost to it.                *)
VectorDatabaseOnlyAdds ==
    (req.pc = "embed" /\ req.kind = "query" /\ os = 0 /\ req.hits # {}) =>
        \E h \in req.hits : h.kind = "word"

(***************************************************************************)
(* What EmbeddingContract, NoMisleadingEmpty and SameVectorSpace rest on,  *)
(* from the moment the request has loaded its configuration.               *)
(***************************************************************************)
Loaded == req.pc # "none" /\ req.from # "denied"

QuerySteps == {"first", "keyword", "vector", "read", "answer"}
SemanticSteps == {"ann", "scan", "lexical"}

RequestTypes ==
    /\ DOMAIN req = DOMAIN NoReq
    /\ req.vectors \in BOOLEAN /\ req.changed \in BOOLEAN
    /\ model \in Nat \ {0}
    /\ req.pc \in {"none", "coverage", "embed", "done"} \cup QuerySteps \cup SemanticSteps
    /\ req.pc \in QuerySteps => req.kind = "query"
    /\ req.pc \in SemanticSteps => req.kind # "query"
    /\ req.pc # "done" => req.from = None

\* Going on without vectors is said at the latest with the answer (Remarks), and never done
\* when they are required.
DegradedOpenly ==
    /\ Loaded /\ cfg.mode = "hybrid-required" /\ "search" \notin req.unread => req.mode = "hybrid-required"
    /\ Loaded /\ ~req.vectors /\ cfg.weight =>
           /\ req.mode # "hybrid-required"
           /\ \/ Degraded
              \/ req.mode = "keyword-only" /\ req.pc \notin SemanticSteps /\ ~Local

\* The query has its vector before anything is compared with it.
QueryIsEmbedded ==
    /\ req.pc = "coverage" \/ (req.pc = "embed" /\ req.kind # "query") => req.vectors
    /\ req.pc \in {"ann", "scan"} => req.vectors /\ req.qrev # 0
    /\ req.pc = "lexical" => ~req.vectors
    /\ req.vectors /\ (req.pc = "answer" \/ Local) => req.qrev # 0

\* Unless the model setting is replaced or cannot be read meanwhile, its revision is the
\* one loaded, also for the vector database.
OneRevision ==
    Loaded /\ ~req.changed /\ "model" \notin req.unread =>
        /\ req.pc # "done" => req.rev = model
        /\ req.qrev # 0 => req.qrev = req.rev
        /\ req.rev # 0
        /\ \A c \in req.cand \cup req.hits : c.ext \in {0, req.rev}

\* What is remembered of the source is what it gave.
SourceIsRemembered ==
    /\ req.remote \in {None, "ref"} \cup Outcomes
    /\ req.remote \in Outcomes => req.gave = req.remote
    /\ Loaded /\ req.kind = "query" /\ cfg.otherRef => req.remote = "ref"
    /\ "returned-nothing" \in req.notes => req.pc = "done"

RetrievalInv ==
    /\ RequestTypes /\ DegradedOpenly /\ QueryIsEmbedded /\ OneRevision /\ SourceIsRemembered
    /\ NoMisleadingEmpty /\ SameVectorSpace
=============================================================================
