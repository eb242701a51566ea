-------------------------- MODULE SearchProjection --------------------------
(***************************************************************************)
(* The copies of one ref in the optional search stores, kept in step by    *)
(* worker.execute after the index run published the ref: the OpenSearch    *)
(* documents (opensearch.Client.SyncRef, full or incremental) with the     *)
(* stamp search_projection_states keeps of them, and the vectors           *)
(* (App.projectVectors).                                                   *)
(*                                                                         *)
(* The publish is one step here; how it comes about is RefIndex.  A chunk  *)
(* is a path and a version of its content, which is what its id hashes.    *)
(***************************************************************************)
EXTENDS Integers, Sequences

CONSTANTS
    Paths,
    Hidden,       \* paths only the wide policy accepts
    Versions,
    Absent,       \* the file does not exist
    Principals,   \* users the source may grant read permission
    Models,       \* embedding models
    Workers,      \* replicas
    MaxCommits,   \* bound: commits of the ref
    MaxEvents     \* bound: forced pushes, changed settings, failures

ASSUME ProjectionAssumption ==
    /\ Hidden \subseteq Paths
    /\ Absent \notin Versions
    /\ MaxCommits \in Nat \ {0}
    /\ MaxEvents \in Nat

NoCommit == 0
Chunks == [path : Paths, version : Versions]
Vectors == [path : Paths, version : Versions, model : Models]
Documents == [path : Paths, version : Versions, principals : SUBSET Principals]
Trees == [Paths -> Versions \cup {Absent}]

VARIABLES
    (* the source and the settings *)
    head,        \* the branch's latest commit
    trees,       \* the files of every commit so far
    granted,     \* who may read the repository
    policy,
    model,
    events,
    (* the database *)
    ref,         \* repository_ref_states and the files the chunks are from
    rows,        \* document_chunks with their embedding
    changes,     \* repository_ref_changes of the ref's commit
    permitted,   \* repository_permissions
    stamp,       \* search_projection_states
    (* the search stores *)
    documents,
    vectors,
    (* the workers *)
    run,
    (* history *)
    overtaken    \* a projection met a step the stamp does not account for

envVars == <<head, trees, granted, policy, model>>
dbVars == <<ref, rows, changes, permitted>>
storeVars == <<documents, vectors>>
vars == <<head, trees, granted, policy, model, events, ref, rows, changes, permitted,
          stamp, documents, vectors, run, overtaken>>

Event == events < MaxEvents /\ events' = events + 1

Chunk(r) == [path |-> r.path, version |-> r.version]
ChunksOf(set) == {Chunk(r) : r \in set}

\* Documents of the given rows, readable by the given principals.
DocumentsOf(set, who) == {[path |-> r.path, version |-> r.version, principals |-> who] : r \in set}

\* index: one document per id, the new one replaces the old one.
Indexed(docs, new) == {d \in docs : Chunk(d) \notin ChunksOf(new)} \cup new

NoChanges == [kind |-> "none", from |-> NoCommit, deleted |-> {}, upserts |-> {}]
NoRun == [pc |-> "idle", principals |-> {}, deleted |-> {}, docs |-> {}]
Projecting == {"bulk", "clear", "load", "fill", "mark"}
Places == {"idle", "decide", "vclear", "vfill"} \cup Projecting

(***************************************************************************)
(* The source, the settings and the scheduler.                             *)
(***************************************************************************)

Push(t) ==
    /\ Len(trees) < MaxCommits
    /\ trees' = Append(trees, t)
    /\ head' = Len(trees')
    /\ UNCHANGED <<granted, policy, model, events, dbVars, stamp, storeVars, run, overtaken>>

\* A forced push back to a commit the branch had before.
ForcePush(c) ==
    /\ c # head
    /\ Event
    /\ head' = c
    /\ UNCHANGED <<trees, granted, policy, model, dbVars, stamp, storeVars, run, overtaken>>

ChangeSettings(who, p, m) ==
    /\ <<who, p, m>> # <<granted, policy, model>>
    /\ Event
    /\ granted' = who
    /\ policy' = p
    /\ model' = m
    /\ UNCHANGED <<head, trees, dbVars, stamp, storeVars, run, overtaken>>

\* Scheduler.RunOnce deletes old repository_ref_changes.
ForgetChanges ==
    /\ changes # NoChanges
    /\ Event
    /\ changes' = NoChanges
    /\ UNCHANGED <<envVars, ref, rows, permitted, stamp, storeVars, run, overtaken>>

(***************************************************************************)
(* The index run: permissions, then the publish of the ref (see RefIndex). *)
(***************************************************************************)

content == trees[head]

Allowed == IF policy = "wide" THEN Paths ELSE Paths \ Hidden

RowsOf(paths) ==
    {[path |-> p, version |-> content[p], model |-> model]
        : p \in {q \in paths \cap Allowed : content[q] # Absent}}

Current == [commit |-> head, tree |-> content, policy |-> policy, model |-> model]

Same(field) == ref[field] = Current[field]

\* syncRepository writes the permissions the source reports, then syncRef.
IndexRun(w) ==
    /\ run[w].pc = "idle"
    /\ permitted' = granted
    /\ run' = [run EXCEPT ![w].pc = "decide"]
    /\ UNCHANGED <<envVars, stamp, storeVars>>

Unchanged(w) ==
    /\ ref = Current
    /\ IndexRun(w)
    /\ UNCHANGED <<events, ref, rows, changes, overtaken>>

Alone(w) == \A v \in Workers \ {w} : run[v].pc \notin Projecting

\* A publish under a projection that is under way, or of the very commit the
\* stamp already names.
Overtakes(w) == ~Alone(w) \/ stamp.commit = head

PublishFull(w) ==
    /\ ref # Current
    /\ IndexRun(w)
    /\ ref' = Current
    /\ rows' = RowsOf(Paths)
    /\ changes' = [kind |-> "full", from |-> ref.commit, deleted |-> {}, upserts |-> {}]
    /\ overtaken' = (overtaken \/ Overtakes(w))
    /\ UNCHANGED events

\* The diff names the paths; their rows are deleted and those that still exist
\* and are accepted are staged again.
PublishIncremental(w) ==
    /\ ref.commit # NoCommit
    /\ ~Same("commit")
    /\ IndexRun(w)
    /\ LET changed == {p \in Paths : ref.tree[p] # content[p]}
           gone == {r \in rows : r.path \in changed}
           new == RowsOf(changed)
       IN  /\ rows' = (rows \ gone) \cup new
           /\ changes' = [kind |-> "incremental", from |-> ref.commit,
                          deleted |-> ChunksOf(gone), upserts |-> {r.path : r \in new}]
    /\ ref' = Current
    /\ overtaken' = (overtaken \/ Overtakes(w))
    /\ UNCHANGED events

(***************************************************************************)
(* opensearch.Client.SyncRef.                                              *)
(***************************************************************************)

AlwaysAppliesDiff == changes.kind = "incremental"

\* The recorded diff starts at what the projection holds.
DiffApplies == changes.kind = "incremental" /\ changes.from = stamp.commit

\* syncIncremental: nothing to do, the diff, or the whole ref again.
Decide(w) ==
    /\ run[w].pc = "decide"
    /\ run' = [run EXCEPT ![w] =
         CASE stamp.commit = ref.commit /\ stamp.principals = permitted ->
                [NoRun EXCEPT !.pc = "vclear"]
           [] stamp.commit \notin {NoCommit, ref.commit} /\ DiffApplies ->
                [pc |-> "bulk", principals |-> permitted, deleted |-> changes.deleted,
                 docs |-> DocumentsOf({r \in rows : r.path \in changes.upserts}, permitted)]
           [] OTHER -> [NoRun EXCEPT !.pc = "clear", !.principals = permitted]]
    /\ overtaken' = (overtaken \/ ~Alone(w))
    /\ UNCHANGED <<envVars, events, dbVars, stamp, storeVars>>

\* _bulk with the deletions before the upserts, answered without an item failure.
Bulk(w) ==
    /\ run[w].pc = "bulk"
    /\ documents' = Indexed({d \in documents : Chunk(d) \notin run[w].deleted}, run[w].docs)
    /\ run' = [run EXCEPT ![w].pc = "mark"]
    /\ UNCHANGED <<envVars, events, dbVars, stamp, vectors, overtaken>>

\* _delete_by_query of the ref, with conflicts=proceed: a document that another run
\* writes meanwhile is left where it is, and the answer is no error.
Clear(w) ==
    /\ run[w].pc = "clear"
    /\ documents' \in IF Alone(w) THEN {{}} ELSE SUBSET documents
    /\ run' = [run EXCEPT ![w].pc = "load"]
    /\ UNCHANGED <<envVars, events, dbVars, stamp, vectors, overtaken>>

Load(w) ==
    /\ run[w].pc = "load"
    /\ run' = [run EXCEPT ![w].pc = "fill", ![w].docs = DocumentsOf(rows, run[w].principals)]
    /\ UNCHANGED <<envVars, events, dbVars, stamp, storeVars, overtaken>>

Fill(w) ==
    /\ run[w].pc = "fill"
    /\ documents' = Indexed(documents, run[w].docs)
    /\ run' = [run EXCEPT ![w].pc = "mark"]
    /\ UNCHANGED <<envVars, events, dbVars, stamp, vectors, overtaken>>

\* markProjection copies the commit the ref has by now.
Mark(w) ==
    /\ run[w].pc = "mark"
    /\ stamp' = [commit |-> ref.commit, principals |-> run[w].principals]
    /\ run' = [run EXCEPT ![w] = [NoRun EXCEPT !.pc = "vclear"]]
    /\ UNCHANGED <<envVars, events, dbVars, storeVars, overtaken>>

AfterFailure(w) == "idle"

\* The documents of the very commit the stamp names were removed: a projection
\* repeated for new permissions.
Emptied(w) == run[w].pc \in {"load", "fill", "mark"} /\ stamp.commit = ref.commit

\* A bulk request that fails applies any of its items, deletions and upserts; the job
\* is retried and its run starts again.
BulkFails(w, cut, part) ==
    /\ run[w].pc \in {"bulk", "fill"}
    /\ Event
    /\ cut \subseteq run[w].deleted
    /\ part \subseteq run[w].docs
    /\ documents' = Indexed({d \in documents : Chunk(d) \notin cut}, part)
    /\ run' = [run EXCEPT ![w].pc = AfterFailure(w)]
    /\ overtaken' = (overtaken \/ Emptied(w))
    /\ UNCHANGED <<envVars, dbVars, stamp, vectors>>

\* Any other failure or a crash: what was done so far stays.
Fail(w) ==
    /\ run[w].pc # "idle"
    /\ Event
    /\ run' = [run EXCEPT ![w] = NoRun]
    /\ overtaken' = (overtaken \/ Emptied(w))
    /\ UNCHANGED <<envVars, dbVars, stamp, storeVars>>

(***************************************************************************)
(* App.projectVectors.                                                     *)
(***************************************************************************)

ClearVectors(w) ==
    /\ run[w].pc = "vclear"
    /\ vectors' = {}
    /\ run' = [run EXCEPT ![w].pc = "vfill"]
    /\ UNCHANGED <<envVars, events, dbVars, stamp, documents, overtaken>>

\* streamVectors pages through the rows in the order of their ids.
FillVectors(w) ==
    /\ run[w].pc = "vfill"
    /\ vectors' = {v \in vectors : Chunk(v) \notin ChunksOf(rows)} \cup rows
    /\ run' = [run EXCEPT ![w] = NoRun]
    /\ UNCHANGED <<envVars, events, dbVars, stamp, documents, overtaken>>

Init ==
    /\ head = 1
    /\ trees \in {<<t>> : t \in Trees}
    /\ granted = {}
    /\ policy = "narrow"
    /\ model \in Models
    /\ events = 0
    /\ ref = [commit |-> NoCommit, tree |-> [p \in Paths |-> Absent], policy |-> "narrow", model |-> model]
    /\ rows = {}
    /\ changes = NoChanges
    /\ permitted = {}
    /\ stamp = [commit |-> NoCommit, principals |-> {}]
    /\ documents = {}
    /\ vectors = {}
    /\ run = [w \in Workers |-> NoRun]
    /\ overtaken = FALSE

Project(w) ==
    \/ Unchanged(w) \/ PublishFull(w) \/ PublishIncremental(w)
    \/ Decide(w) \/ Bulk(w) \/ Clear(w) \/ Load(w) \/ Fill(w) \/ Mark(w)
    \/ \E cut \in SUBSET run[w].deleted, part \in SUBSET run[w].docs : BulkFails(w, cut, part)
    \/ Fail(w)
    \/ ClearVectors(w) \/ FillVectors(w)

Next ==
    \/ \E t \in Trees : Push(t)
    \/ \E c \in DOMAIN trees : ForcePush(c)
    \/ \E who \in SUBSET Principals, p \in {"narrow", "wide"}, m \in Models :
          ChangeSettings(who, p, m)
    \/ ForgetChanges
    \/ \E w \in Workers : Project(w)

Spec == Init /\ [][Next]_vars

-----------------------------------------------------------------------------
(* Properties *)

\* Every variable has its type.
TypeOK ==
    /\ head \in 1..MaxCommits
    /\ trees \in Seq(Trees) /\ Len(trees) \in 1..MaxCommits
    /\ granted \subseteq Principals
    /\ policy \in {"narrow", "wide"}
    /\ model \in Models
    /\ events \in 0..MaxEvents
    /\ ref \in [commit : 0..MaxCommits, tree : Trees, policy : {"narrow", "wide"}, model : Models]
    /\ rows \subseteq Vectors
    /\ changes \in [kind : {"none", "full", "incremental"}, from : 0..MaxCommits,
                    deleted : SUBSET Chunks, upserts : SUBSET Paths]
    /\ permitted \subseteq Principals
    /\ stamp \in [commit : 0..MaxCommits, principals : SUBSET Principals]
    /\ documents \subseteq Documents
    /\ vectors \subseteq Vectors
    /\ run \in [Workers -> [pc : Places, principals : SUBSET Principals,
                            deleted : SUBSET Chunks, docs : SUBSET Documents]]
    /\ overtaken \in BOOLEAN

\* The stamp is believed: once it names the ref's commit and its permissions no
\* run projects the ref again.  Whichever items of bulk requests fail, and however
\* runs crash, diffs expire and commits pile up between two projections, the documents
\* under a stamp of the ref's commit are exactly the ref's chunks (syncIncremental,
\* markProjection).  Three things are excepted (overtaken), because the stamp keeps no
\* trace of them: another run of the ref that comes in between, a publish of the very
\* commit the stamp names (a branch forced back, or a ref rebuilt under another policy),
\* and a projection repeated for new permissions that fails half way.
StampedChunksAreIndexed ==
    stamp.commit = ref.commit /\ ~overtaken /\ (\A w \in Workers : run[w].pc \notin Projecting)
        => ChunksOf(documents) = ChunksOf(rows)

\* projectSearchStores "keeps every optional search backend in step with a ref
\* that finished indexing": what the stamp says of the commit and of the
\* permissions is true of every document.
StampIsTrue ==
    stamp = [commit |-> ref.commit, principals |-> permitted] /\ ref.commit # NoCommit
        /\ (\A w \in Workers : run[w].pc = "idle")
        => documents = DocumentsOf(rows, permitted)

(* The inductive invariant behind StampedChunksAreIndexed.                 *)

RunShape ==
    /\ DOMAIN run = Workers
    /\ \A w \in Workers : DOMAIN run[w] = DOMAIN NoRun
    /\ overtaken \in BOOLEAN
    /\ changes.kind = "incremental" => changes.from # NoCommit

\* One run projects at a time.
SoleProjector ==
    \A v, w \in Workers : run[v].pc \in Projecting /\ run[w].pc \in Projecting => v = w

Upserts == {r \in rows : r.path \in changes.upserts}

\* The chunks the index has once the deletions and the upserts are applied to it.
Applied(deleted, docs) == (ChunksOf(documents) \ deleted) \cup ChunksOf(docs)

\* What a projection under way has in hand and has done.
ProjectionHeld(w) ==
    /\ run[w].pc = "bulk" =>
          /\ stamp.commit # ref.commit
          /\ Applied(run[w].deleted, run[w].docs) = ChunksOf(rows)
          /\ DiffApplies => /\ run[w].deleted = changes.deleted
                            /\ ChunksOf(run[w].docs) = ChunksOf(Upserts)
    /\ run[w].pc \in {"clear", "load", "fill"} => ~DiffApplies \/ stamp.commit = ref.commit
    /\ run[w].pc \in {"load", "fill"} => documents = {}
    /\ run[w].pc = "fill" => ChunksOf(run[w].docs) = ChunksOf(rows)
    /\ run[w].pc = "mark" => ChunksOf(documents) = ChunksOf(rows)

\* Until the ref's documents are removed, those under its own commit are its chunks.
StampHeld ==
    stamp.commit = ref.commit /\ (\A w \in Workers : run[w].pc \notin {"load", "fill", "mark"})
        => ChunksOf(documents) = ChunksOf(rows)

\* The recorded diff leads from what the index has to what the ref has, also when a part
\* of it was applied before.
DiffHeld ==
    DiffApplies /\ stamp.commit # ref.commit => Applied(changes.deleted, Upserts) = ChunksOf(rows)

InStep ==
    /\ SoleProjector
    /\ \A w \in Workers : ProjectionHeld(w)
    /\ StampHeld
    /\ DiffHeld

ProjectionInv == RunShape /\ (~overtaken => InStep)
=============================================================================
