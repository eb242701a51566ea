----------------------------- MODULE VectorStore -----------------------------
(***************************************************************************)
(* The vector database beside the metadata database: the collection        *)
(* (pgvector or Milvus) with its one dimension, the projection of a ref    *)
(* after every index run (App.projectVectors), the administrator's rebuild *)
(* of everything (App.vectorRebuild), and the search by revision.  The     *)
(* embeddings are read in pages and sent page by page, while other runs    *)
(* publish and project.                                                    *)
(***************************************************************************)
EXTENDS Integers, FiniteSets, FiniteSetsExt

CONSTANTS
    Ids,          \* chunk ids, numbers: a page is read in their order
    RefOf,        \* the ref a chunk is in
    Models,       \* embedding models, that is revisions
    Dimensions,   \* what each model's vectors have
    PageSize,     \* rows of one page, 500 in the code
    Workers,
    Admin,        \* the request that rebuilds
    None,
    MaxEvents     \* bound: publications, changed settings, rebuilds and failures

VARIABLES
    enabled,      \* a database is selected, and the retrieval mode uses embeddings
    model,
    rows,         \* document_chunks: the model of each embedding, "bad" if it does not decode
    collection,   \* the dimension the collection was created with
    vectors,      \* what it holds: the model of every vector
    proc,         \* the projections and the rebuild under way
    owed,         \* refs whose job is not finished
    settled,      \* refs projected to the end with nothing else at work on them
    events

vars == <<enabled, model, rows, collection, vectors, proc, owed, settled, events>>

Refs == {RefOf[i] : i \in Ids}
Everything == "everything"
IdsOf(scope) == IF scope = Everything THEN Ids ELSE {i \in Ids : RefOf[i] = scope}
Idle == [pc |-> "idle", scope |-> None, after |-> 0, batch |-> {}, last |-> FALSE, alone |-> FALSE]
Procs == Workers \cup {Admin}

Init ==
    /\ enabled = FALSE
    /\ model \in Models
    /\ rows = [i \in Ids |-> None]
    /\ collection = None
    /\ vectors = [i \in Ids |-> None]
    /\ proc = [p \in Procs |-> Idle]
    /\ owed = {}
    /\ settled = {}
    /\ events = 0

Event == events < MaxEvents /\ events' = events + 1

\* Everyone whose scope meets the given one is no longer alone there.
Disturbed(scope) ==
    [p \in Procs |-> IF proc[p].scope # None /\ IdsOf(proc[p].scope) \cap IdsOf(scope) # {}
                     THEN [proc[p] EXCEPT !.alone = FALSE] ELSE proc[p]]

(***************************************************************************)
(* The stores.                                                             *)
(***************************************************************************)

\* CREATE TABLE IF NOT EXISTS, or list and create: an existing collection keeps
\* the dimension it has.
Ensure(dimension) == IF collection = None THEN dimension ELSE collection

\* INSERT ... ON CONFLICT (id) DO UPDATE, upsert: one row per id.
Upserted(batch) == [i \in Ids |-> IF i \in DOMAIN batch THEN batch[i] ELSE vectors[i]]

Fits(batch, dimension) == \A i \in DOMAIN batch : Dimensions[batch[i]] = dimension

\* The nearest neighbours inside one ref, of the query's revision.
Search(ref) == {i \in IdsOf(ref) : vectors[i] = model}

(***************************************************************************)
(* Settings.                                                               *)
(***************************************************************************)

\* The setting is saved after TestConnection, which creates the collection when
\* the setting names a dimension (0: it does not).
SaveSetting(dimension) ==
    /\ ~enabled
    /\ Event
    /\ enabled' = TRUE
    /\ collection' = IF dimension > 0 THEN Ensure(dimension) ELSE collection
    /\ UNCHANGED <<model, rows, vectors, proc, owed, settled>>

ChangeModel(m) ==
    /\ m # model
    /\ Event
    /\ model' = m
    /\ UNCHANGED <<enabled, rows, collection, vectors, proc, owed, settled>>

(***************************************************************************)
(* The index run and its projection.                                       *)
(***************************************************************************)

Start(p, scope, pc) ==
    proc' = [Disturbed(scope) EXCEPT ![p] =
               [Idle EXCEPT !.pc = pc, !.scope = scope,
                            !.alone = \A q \in Procs \ {p} :
                                         proc[q].scope = None \/ IdsOf(proc[q].scope) \cap IdsOf(scope) = {}]]

\* A publication of the ref (see RefIndex), followed by its projection.
Publish(w, ref, kept, bad) ==
    /\ proc[w].pc = "idle"
    /\ Event
    /\ rows' = [i \in Ids |-> IF RefOf[i] # ref THEN rows[i]
                              ELSE IF i \in bad THEN "bad" ELSE IF i \in kept THEN model ELSE None]
    /\ Start(w, ref, "delete")
    /\ owed' = owed \cup {ref}
    /\ settled' = settled \ {ref}
    /\ UNCHANGED <<enabled, model, collection, vectors>>

\* The job is taken up again, finds the commit indexed, and projects.
Retry(w, ref) ==
    /\ proc[w].pc = "idle"
    /\ ref \in owed
    /\ \A q \in Workers : proc[q].scope # ref
    /\ Start(w, ref, "delete")
    /\ settled' = settled \ {ref}
    /\ UNCHANGED <<enabled, model, rows, collection, vectors, owed, events>>

Finish(p) ==
    /\ proc' = [proc EXCEPT ![p] = Idle]
    /\ owed' = owed \ {proc[p].scope}
    /\ settled' = IF p # Admin /\ enabled /\ proc[p].alone THEN settled \cup {proc[p].scope} ELSE settled

Abort(p) == proc' = [proc EXCEPT ![p] = Idle] /\ UNCHANGED <<owed, settled>>

\* Nothing to do without a database.
NotConfigured(w) ==
    /\ proc[w].pc = "delete"
    /\ ~enabled
    /\ Finish(w)
    /\ UNCHANGED <<enabled, model, rows, collection, vectors, events>>

\* DeleteRef fails on a collection nobody created.
DeleteRef(w) ==
    /\ proc[w].pc = "delete"
    /\ enabled
    /\ IF collection = None
       THEN Abort(w) /\ UNCHANGED vectors
       ELSE /\ vectors' = [i \in Ids |-> IF RefOf[i] = proc[w].scope THEN None ELSE vectors[i]]
            /\ proc' = [proc EXCEPT ![w].pc = "page"]
            /\ UNCHANGED <<owed, settled>>
    /\ UNCHANGED <<enabled, model, rows, collection, events>>

\* The rows of the next page: those with an embedding, after the last id read.
NextPage(p) ==
    LET left == {i \in IdsOf(proc[p].scope) : rows[i] # None /\ i > proc[p].after}
    IN  {i \in left : Cardinality({j \in left : j < i}) < PageSize}

\* Mutant: a page whose rows do not all decode ends the stream.
LastWhenFewDecode(page, batch) == Cardinality(batch) < PageSize

\* A page that is not full is the last one.
Last(page, batch) == Cardinality(page) < PageSize

\* streamVectors reads a page and closes the cursor; rows that do not decode are
\* passed over.
ReadPage(p) ==
    /\ proc[p].pc = "page"
    /\ LET page == NextPage(p)
           batch == {i \in page : rows[i] # "bad"}
           last == Last(page, batch)
       IN  IF batch = {} /\ last
           THEN Finish(p)
           ELSE /\ proc' = [proc EXCEPT ![p].pc = IF batch = {} THEN "page" ELSE "send",
                                        ![p].after = IF page = {} THEN @ ELSE Max(page),
                                        ![p].batch = [i \in batch |-> rows[i]],
                                        ![p].last = last]
                /\ UNCHANGED <<owed, settled>>
    /\ UNCHANGED <<enabled, model, rows, collection, vectors, events>>

\* Upsert creates the collection for the batch's first vector if it has to; a
\* batch that does not fit the collection is refused.
Upsert(p) ==
    /\ proc[p].pc = "send"
    /\ LET batch == proc[p].batch
           dimension == Ensure(Dimensions[batch[Min(DOMAIN batch)]])
       IN  /\ collection' = dimension
           /\ IF ~Fits(batch, dimension) THEN Abort(p) /\ UNCHANGED vectors
              ELSE /\ vectors' = Upserted(batch)
                   /\ IF proc[p].last THEN Finish(p)
                      ELSE proc' = [proc EXCEPT ![p].pc = "page"] /\ UNCHANGED <<owed, settled>>
    /\ UNCHANGED <<enabled, model, rows, events>>

\* A lost connection, a timeout or a crash: what was sent stays.
Fails(p) ==
    /\ proc[p].pc # "idle"
    /\ Event
    /\ Abort(p)
    /\ UNCHANGED <<enabled, model, rows, collection, vectors>>

\* Every embedding again, deleting nothing; the collection is created for the
\* dimension of any one of them.
Rebuild ==
    /\ proc[Admin].pc = "idle"
    /\ enabled
    /\ Event
    /\ Start(Admin, Everything, "page")
    /\ \E sample \in {rows[i] : i \in Ids} :
          collection' = IF sample \in Models THEN Ensure(Dimensions[sample]) ELSE collection
    /\ UNCHANGED <<enabled, model, rows, vectors, owed, settled>>

Next ==
    \/ \E d \in {0} \cup {Dimensions[m] : m \in Models} : SaveSetting(d)
    \/ \E m \in Models : ChangeModel(m)
    \/ \E w \in Workers, ref \in Refs :
          \/ \E kept \in SUBSET IdsOf(ref) : \E bad \in SUBSET kept : Publish(w, ref, kept, bad)
          \/ Retry(w, ref)
    \/ \E w \in Workers : NotConfigured(w) \/ DeleteRef(w)
    \/ \E p \in Procs : ReadPage(p) \/ Upsert(p) \/ Fails(p)
    \/ Rebuild

Spec == Init /\ [][Next]_vars

-----------------------------------------------------------------------------
(* Properties *)

\* However earlier projections of the ref failed half way, models changed and
\* rebuilds ran before it, a projection that got to its end with nothing else at
\* work on the ref leaves exactly the ref's embeddings to be found: no page was
\* left out and nothing of an earlier generation survived (projectVectors,
\* streamVectors).
ProjectedRefIsFound ==
    \A ref \in settled : Search(ref) = {i \in IdsOf(ref) : rows[i] = model}

(* The inductive invariant behind ProjectedRefIsFound.                     *)

VectorTypes ==
    /\ model \in Models
    /\ rows \in [Ids -> Models \cup {None, "bad"}]
    /\ vectors \in [Ids -> Models \cup {None}]
    /\ settled \subseteq Refs
    /\ DOMAIN proc = Procs
    /\ \A p \in Procs :
          /\ DOMAIN proc[p] = DOMAIN Idle
          /\ proc[p].pc \in {"idle", "delete", "page", "send"}
          /\ proc[p].after \in Nat
          /\ proc[p].last \in BOOLEAN
          /\ proc[p].alone \in BOOLEAN

\* Nobody else is at work where a projection is alone.
AloneIsAlone ==
    \A p \in Procs : proc[p].alone =>
        \A q \in Procs \ {p} : proc[q].scope = None \/ IdsOf(proc[q].scope) \cap IdsOf(proc[p].scope) = {}

\* The vector a row gives.
Wanted(i) == IF rows[i] \in Models THEN rows[i] ELSE None

\* What a projection of its own ref has sent and what it has in hand.
SentSoFar(p) ==
    /\ proc[p].pc = "idle" => ~proc[p].alone /\ proc[p].scope = None
    /\ proc[p].pc # "idle" => proc[p].scope \in IF p = Admin THEN {Everything} ELSE Refs
    /\ proc[p].pc = "delete" => proc[p].after = 0
    /\ proc[p].pc = "send" =>
          /\ DOMAIN proc[p].batch \subseteq IdsOf(proc[p].scope)
          /\ \A i \in DOMAIN proc[p].batch : proc[p].batch[i] \in Models /\ i <= proc[p].after
    /\ p # Admin /\ proc[p].alone /\ proc[p].pc \in {"page", "send"} =>
          \A i \in IdsOf(proc[p].scope) :
             IF i > proc[p].after
             THEN vectors[i] = None /\ (proc[p].pc = "send" /\ proc[p].last => rows[i] = None)
             ELSE IF proc[p].pc = "send" /\ i \in DOMAIN proc[p].batch THEN proc[p].batch[i] = rows[i]
             ELSE vectors[i] = Wanted(i)

\* A settled ref is left alone but for a rebuild, which read its rows as they are.
SettledIsHeld ==
    \A ref \in settled :
        /\ \A w \in Workers : proc[w].scope # ref
        /\ \A i \in IdsOf(ref) : vectors[i] = Wanted(i)
        /\ proc[Admin].pc = "send" =>
              \A i \in IdsOf(ref) \cap DOMAIN proc[Admin].batch : proc[Admin].batch[i] = rows[i]

VectorInv == VectorTypes /\ AloneIsAlone /\ (\A p \in Procs : SentSoFar(p)) /\ SettledIsHeld

\* Status: "collection is not created yet and will be created on the first
\* projection".
FirstProjectionSucceeds ==
    \A w \in Workers : proc[w].pc = "delete" /\ enabled => collection # None
=============================================================================
