--------------------------- MODULE ExternalProofs ---------------------------
(***************************************************************************)
(* The components of MCExternal for any number of pages, files, users,     *)
(* commits, replicas and failures.                                         *)
(***************************************************************************)
EXTENDS MCExternal, FiniteSetTheorems, WellFoundedInduction, TLAPS

-----------------------------------------------------------------------------
(* DocumentSources: the revision of a Jira project.                        *)

\* A bounded set of numbers has a greatest one.
LEMMA Greatest ==
    ASSUME NEW bound \in Nat, NEW set \in SUBSET (0..bound), set # {}
    PROVE  \E x \in set : \A y \in set : y <= x
<1> DEFINE left == {bound - x : x \in set}
<1>1. left \subseteq Nat /\ left # {}
    <2>1. PICK x : x \in set
        OBVIOUS
    <2>2. bound - x \in left
        BY <2>1
    <2> QED BY <2>2
<1>2. PICK l \in left : \A m \in left : ~(<<m, l>> \in OpToRel(<, Nat))
    <2> HIDE DEF left
    <2> QED BY <1>1, NatLessThanWellFounded, WFMin
<1>3. PICK x \in set : l = bound - x
    OBVIOUS
<1>4. ASSUME NEW y \in set PROVE y <= x
    <2>1. ~(<<bound - y, l>> \in OpToRel(<, Nat))
        BY <1>2
    <2>2. ~(bound - y < bound - x)
        BY <2>1, <1>3 DEF OpToRel
    <2> QED BY <2>2
<1> QED BY <1>4

\* The issue edited last stands for the project: no issue was edited after it.
LEMMA RevisionIsLast ==
    ASSUME D!JiraTypes
    PROVE  /\ D!JiraRevision \in D!Revisions
           /\ D!JiraRevision.at \in 0..granted
           /\ \A p \in Pages : trees[p] <= D!JiraRevision.at
<1> USE DEF D!JiraTypes
<1>1. CASE D!Existing = {}
    <2>1. D!JiraRevision = [at |-> 0, page |-> 0]
        BY <1>1 DEF D!JiraRevision, D!Empty
    <2>2. ASSUME NEW p \in Pages PROVE trees[p] = 0
        BY <1>1 DEF D!Existing, D!NotThere
    <2> QED BY <2>1, <2>2 DEF D!Revisions
<1>2. CASE D!Existing # {}
    <2> DEFINE times == {trees[q] : q \in D!Existing}
    <2>1. D!Existing \subseteq Pages
        BY DEF D!Existing
    <2>2. times \in SUBSET (0..granted) /\ times # {}
        BY <1>2, <2>1
    <2>3. PICK x \in times : \A y \in times : y <= x
        <3> HIDE DEF times
        <3> QED BY <2>2, Greatest
    <2>4. \E p \in D!Existing : \A q \in D!Existing : trees[q] <= trees[p]
        BY <2>3
    <2> DEFINE last == CHOOSE p \in D!Existing : \A q \in D!Existing : trees[q] <= trees[p]
    <2>5. last \in D!Existing /\ \A q \in D!Existing : trees[q] <= trees[last]
        BY <2>4
    <2>6. D!JiraRevision = [at |-> trees[last], page |-> last]
        BY <1>2 DEF D!JiraRevision, D!Token
    <2> HIDE DEF last
    <2>7. ASSUME NEW p \in Pages PROVE trees[p] <= trees[last]
        <3>1. trees[p] \in 0..granted /\ trees[last] \in 0..granted
            BY <2>1, <2>5
        <3> QED BY <2>5, <3>1 DEF D!Existing, D!NotThere
    <2> QED BY <2>1, <2>5, <2>6, <2>7 DEF D!Revisions
<1> QED BY <1>1, <1>2

LEMMA JiraInit == D!Init => D!JiraInv
<1> SUFFICES ASSUME D!Init PROVE D!JiraTypes /\ D!RunReadsTheListing /\ D!StoredIsTheListing
    BY DEF D!JiraInv
<1> USE DEF D!Init, D!NoRun, D!Empty, D!Nothing, D!NotThere, D!Revisions
<1>1. D!JiraTypes
    BY DEF D!JiraTypes
<1> QED BY <1>1 DEF D!RunReadsTheListing, D!StoredIsTheListing

\* The space changes at a later time than any run under way or stored has seen.
LEMMA ChangeIsNoticed ==
    ASSUME D!JiraTypes, D!RunReadsTheListing, D!StoredIsTheListing, UNCHANGED <<head, model, run>>,
           granted' = granted + 1, policy' \in {policy, granted'}, trees' \in [Pages -> 0..granted'],
           policy' = granted' \/ \E p \in Pages : trees'[p] = granted'
    PROVE  D!JiraTypes' /\ D!RunReadsTheListing' /\ D!StoredIsTheListing'
<1>1. granted \in Nat /\ granted' \in Nat /\ 0..granted \subseteq 0..granted' /\ granted' \in 0..granted'
    BY DEF D!JiraTypes
<1>2. D!JiraTypes'
    BY <1>1 DEF D!JiraTypes
<1>3. ASSUME NEW t \in 0..granted PROVE ~(policy' <= t /\ \A p \in Pages : trees'[p] <= t)
    BY <1>1, <1>3
<1>4. run.at \in 0..granted /\ model.at \in 0..granted
    BY DEF D!JiraTypes
<1>5. ~D!Unedited(run.at)' /\ ~D!Unedited(model.at)'
    BY <1>3, <1>4 DEF D!Unedited
<1>6. D!RunReadsTheListing'
    BY <1>5 DEF D!RunReadsTheListing
<1>7. D!StoredIsTheListing'
    BY <1>5 DEF D!StoredIsTheListing
<1> QED BY <1>2, <1>6, <1>7

\* A step of the run.
LEMMA RunGoesOn ==
    ASSUME D!JiraTypes, D!RunReadsTheListing, D!StoredIsTheListing,
           UNCHANGED <<head, trees, granted, policy, model>>,
           run' \in [pc : {"idle", "list", "read"}, revision : D!Revisions, at : 0..granted,
                     todo : SUBSET Pages, read : [Pages -> Nat] \cup {<<>>}],
           run'.revision.at <= run'.at,
           run'.pc = "read" => run'.read \in [Pages -> Nat],
           run'.pc = "read" /\ D!Unedited(run'.at)
               => \A p \in D!Listed \ run'.todo : run'.read[p] = trees[p]
    PROVE  D!JiraTypes' /\ D!RunReadsTheListing' /\ D!StoredIsTheListing'
<1>1. D!JiraTypes'
    BY DEF D!JiraTypes
<1>2. D!Listed' = D!Listed /\ D!Unedited(run'.at) = D!Unedited(run.at)'
    BY DEF D!Listed, D!ListedByJira, D!ListedByConfluence, D!Existing, D!Unedited
<1>3. D!RunReadsTheListing'
    BY <1>2 DEF D!RunReadsTheListing
<1>4. D!StoredIsTheListing'
    <2>1. D!Unedited(model.at)' = D!Unedited(model.at)
        BY DEF D!Unedited
    <2> QED BY <1>2, <2>1 DEF D!StoredIsTheListing
<1> QED BY <1>1, <1>3, <1>4

LEMMA JiraStep == D!JiraInv /\ [D!Next]_(D!vars) => D!JiraInv'
<1> SUFFICES ASSUME D!JiraInv, [D!Next]_(D!vars), head = "jira", head' = head
             PROVE  D!JiraTypes' /\ D!RunReadsTheListing' /\ D!StoredIsTheListing'
    BY DEF D!JiraInv, D!Next, D!vars, D!Edit, D!Delete, D!GetFile, D!PageGone, D!Poll,
           D!ListFiles, D!RequestFails, D!Publish
<1>1. D!JiraTypes /\ D!RunReadsTheListing /\ D!StoredIsTheListing
    BY DEF D!JiraInv
<1> DEFINE Runs == [pc : {"idle", "list", "read"}, revision : D!Revisions, at : 0..granted,
                    todo : SUBSET Pages, read : [Pages -> Nat] \cup {<<>>}]
<1>2. run \in Runs /\ run.revision.at <= run.at
    BY <1>1 DEF D!JiraTypes, D!RunReadsTheListing
<1>3. granted \in Nat /\ trees \in [Pages -> 0..granted] /\ policy \in 0..granted
    BY <1>1 DEF D!JiraTypes
<1>4. D!NoRun \in Runs /\ D!NoRun.revision.at = 0 /\ D!NoRun.at = 0 /\ D!NoRun.pc = "idle"
    BY <1>3 DEF D!NoRun, D!Empty, D!Revisions
<1>5. D!Listed \subseteq Pages
    BY DEF D!Listed, D!ListedByJira, D!ListedByConfluence, D!Existing
<1>6. ASSUME NEW p \in Pages, D!Edit(p)
      PROVE  D!JiraTypes' /\ D!RunReadsTheListing' /\ D!StoredIsTheListing'
    <2>1. trees' = [trees EXCEPT ![p] = granted'] /\ granted' = granted + 1 /\ UNCHANGED <<policy, model, run>>
        BY <1>6 DEF D!Edit
    <2>2. trees'[p] = granted' /\ trees' \in [Pages -> 0..granted']
        BY <2>1, <1>3
    <2> QED BY <1>1, <2>1, <2>2, ChangeIsNoticed
<1>7. ASSUME NEW p \in Pages, D!Delete(p)
      PROVE  D!JiraTypes' /\ D!RunReadsTheListing' /\ D!StoredIsTheListing'
    <2>1. /\ trees' = [trees EXCEPT ![p] = 0] /\ granted' = granted + 1 /\ policy' = granted'
          /\ UNCHANGED <<model, run>>
        BY <1>7 DEF D!Delete, D!NotThere
    <2>2. trees' \in [Pages -> 0..granted']
        BY <2>1, <1>3
    <2> QED BY <1>1, <2>1, <2>2, ChangeIsNoticed
<1>8. ASSUME run' = D!NoRun, UNCHANGED <<trees, granted, policy, model>>
      PROVE  D!JiraTypes' /\ D!RunReadsTheListing' /\ D!StoredIsTheListing'
    BY <1>1, <1>4, <1>8, RunGoesOn
<1>9. ASSUME D!Poll PROVE D!JiraTypes' /\ D!RunReadsTheListing' /\ D!StoredIsTheListing'
    <2>1. UNCHANGED <<trees, granted, policy, model>> /\ D!Revision = D!JiraRevision
        BY <1>9 DEF D!Poll, D!Revision
    <2>2. CASE run' = run
        BY <1>1, <1>2, <2>1, <2>2, RunGoesOn DEF D!RunReadsTheListing
    <2>3. CASE run' = [D!NoRun EXCEPT !.pc = "list", !.revision = D!Revision, !.at = granted]
        <3>1. D!JiraRevision \in D!Revisions /\ D!JiraRevision.at <= granted
            BY <1>1, <1>3, RevisionIsLast
        <3>2. run' \in Runs /\ run'.pc = "list" /\ run'.revision = D!JiraRevision /\ run'.at = granted
            <4>1. run' = [pc |-> "list", revision |-> D!JiraRevision, at |-> granted, todo |-> {}, read |-> <<>>]
                BY <2>1, <2>3 DEF D!NoRun
            <4>2. granted \in 0..granted
                BY <1>3
            <4> QED BY <3>1, <4>1, <4>2
        <3> QED BY <1>1, <2>1, <3>1, <3>2, RunGoesOn
    <2> QED BY <1>9, <2>2, <2>3 DEF D!Poll
<1>10. ASSUME D!ListFiles PROVE D!JiraTypes' /\ D!RunReadsTheListing' /\ D!StoredIsTheListing'
    <2>1. /\ run' = [run EXCEPT !.pc = "read", !.todo = D!Listed, !.read = D!Nothing]
          /\ UNCHANGED <<trees, granted, policy, model>>
        BY <1>10 DEF D!ListFiles
    <2>2. D!Nothing \in [Pages -> Nat]
        BY DEF D!Nothing, D!NotThere
    <2>3. /\ run' \in Runs /\ run'.todo = D!Listed /\ run'.read = D!Nothing
          /\ run'.revision = run.revision /\ run'.at = run.at
        BY <1>2, <1>5, <2>1, <2>2
    <2> QED BY <1>1, <1>2, <2>1, <2>2, <2>3, RunGoesOn
<1>11. ASSUME NEW p \in Pages, D!GetFile(p)
       PROVE  D!JiraTypes' /\ D!RunReadsTheListing' /\ D!StoredIsTheListing'
    <2>1. /\ run.pc = "read" /\ UNCHANGED <<trees, granted, policy, model>>
          /\ run' = [run EXCEPT !.todo = @ \ {p}, !.read[p] = trees[p]]
        BY <1>11 DEF D!GetFile
    <2>2. run.read \in [Pages -> Nat] /\ trees[p] \in Nat
        BY <1>1, <1>3, <2>1 DEF D!RunReadsTheListing
    <2>3. /\ run'.pc = "read" /\ run'.todo = run.todo \ {p} /\ run'.read = [run.read EXCEPT ![p] = trees[p]]
          /\ run'.revision = run.revision /\ run'.at = run.at /\ run' \in Runs
        BY <1>2, <2>1, <2>2
    <2>4. D!Unedited(run'.at) => \A q \in D!Listed \ run'.todo : run'.read[q] = trees[q]
        BY <1>1, <1>5, <2>1, <2>2, <2>3 DEF D!RunReadsTheListing
    <2> QED BY <1>1, <1>2, <2>1, <2>2, <2>3, <2>4, RunGoesOn
<1>12. ASSUME D!Publish PROVE D!JiraTypes' /\ D!RunReadsTheListing' /\ D!StoredIsTheListing'
    <2>1. /\ run.pc = "read" /\ run.todo = {} /\ UNCHANGED <<trees, granted, policy>> /\ run' = D!NoRun
          /\ model' = [revision |-> run.revision, at |-> run.at, pages |-> run.read, ever |-> TRUE]
        BY <1>12 DEF D!Publish
    <2>2. run.read \in [Pages -> Nat]
        BY <1>1, <2>1 DEF D!RunReadsTheListing
    <2>3. D!JiraTypes'
        BY <1>1, <1>2, <1>4, <2>1, <2>2 DEF D!JiraTypes
    <2>4. D!RunReadsTheListing'
        BY <1>4, <2>1 DEF D!RunReadsTheListing
    <2>5. D!Listed' = D!Listed /\ D!Unedited(model.at)' = D!Unedited(run.at)
        BY <2>1 DEF D!Listed, D!ListedByJira, D!ListedByConfluence, D!Existing, D!Unedited
    <2>6. D!StoredIsTheListing'
        BY <1>1, <1>2, <2>1, <2>5 DEF D!StoredIsTheListing, D!RunReadsTheListing
    <2> QED BY <2>3, <2>4, <2>6
<1>13. CASE UNCHANGED D!vars
    <2>1. UNCHANGED <<trees, granted, policy, model, run>>
        BY <1>13 DEF D!vars
    <2> QED BY <1>1, <1>2, <2>1, RunGoesOn DEF D!RunReadsTheListing
<1> QED BY <1>6, <1>7, <1>8, <1>9, <1>10, <1>11, <1>12, <1>13
        DEF D!Next, D!PageGone, D!RequestFails, D!FailRun

-----------------------------------------------------------------------------
(* SearchProjection: the stamp and the documents.                          *)

LEMMA ChunkFields == \A r : Chunk(r).path = r.path /\ Chunk(r).version = r.version
BY DEF Chunk

\* Documents have the chunks of their rows.
LEMMA DocumentChunks == ASSUME NEW set, NEW who PROVE ChunksOf(DocumentsOf(set, who)) = ChunksOf(set)
<1>1. ASSUME NEW r PROVE Chunk([path |-> r.path, version |-> r.version, principals |-> who]) = Chunk(r)
    BY DEF Chunk
<1>2. ChunksOf(DocumentsOf(set, who))
        = {Chunk([path |-> r.path, version |-> r.version, principals |-> who]) : r \in set}
    BY DEF ChunksOf, DocumentsOf
<1> QED BY <1>1, <1>2 DEF ChunksOf

LEMMA ProjectionShape == RunShape /\ [Next]_vars => RunShape'
<1> SUFFICES ASSUME RunShape, [Next]_vars PROVE RunShape'
    OBVIOUS
<1> USE DEF RunShape
<1>1. DOMAIN NoRun = {"pc", "principals", "deleted", "docs"}
    BY DEF NoRun
<1>3. ASSUME UNCHANGED run, overtaken' \in BOOLEAN, changes' = changes \/ changes' = NoChanges
      PROVE RunShape'
    BY <1>3 DEF NoChanges
<1>4. ASSUME NEW w \in Workers, NEW new, DOMAIN new = DOMAIN NoRun, run' = [run EXCEPT ![w] = new],
             overtaken' \in BOOLEAN, changes'.kind = "incremental" => changes'.from # NoCommit
      PROVE RunShape'
    BY <1>4
<1>5. ASSUME NEW t \in Trees, Push(t) PROVE RunShape'
    BY <1>3, <1>5 DEF Push, dbVars
<1>6. ASSUME NEW c, ForcePush(c) PROVE RunShape'
    BY <1>3, <1>6 DEF ForcePush, dbVars
<1>7. ASSUME NEW who, NEW p, NEW m, ChangeSettings(who, p, m) PROVE RunShape'
    BY <1>3, <1>7 DEF ChangeSettings, dbVars
<1>8. ASSUME ForgetChanges PROVE RunShape'
    BY <1>3, <1>8 DEF ForgetChanges
<1>9. CASE UNCHANGED vars
    BY <1>3, <1>9 DEF vars
<1>10. ASSUME NEW w \in Workers, Project(w) PROVE RunShape'
    <2>1. CASE Unchanged(w)
        BY <2>1, <1>1, <1>4 DEF Unchanged, IndexRun
    <2>2. CASE PublishFull(w)
        BY <2>2, <1>1, <1>4 DEF PublishFull, IndexRun
    <2>3. CASE PublishIncremental(w)
        BY <2>3, <1>1, <1>4 DEF PublishIncremental, IndexRun
    <2>4. CASE Decide(w)
        BY <2>4, <1>1, <1>4 DEF Decide, dbVars, NoRun
    <2>5. CASE Bulk(w) \/ Clear(w) \/ Load(w) \/ Fill(w) \/ Mark(w)
        BY <2>5, <1>1, <1>4 DEF Bulk, Clear, Load, Fill, Mark, dbVars, NoRun
    <2>6. CASE Fail(w) \/ \E cut \in SUBSET run[w].deleted, some \in SUBSET run[w].docs : BulkFails(w, cut, some)
        BY <2>6, <1>1, <1>4 DEF Fail, BulkFails, dbVars
    <2>7. CASE ClearVectors(w) \/ FillVectors(w)
        BY <2>7, <1>1, <1>4 DEF ClearVectors, FillVectors, dbVars
    <2> QED BY <1>10, <2>1, <2>2, <2>3, <2>4, <2>5, <2>6, <2>7 DEF Project
<1> QED BY <1>5, <1>6, <1>7, <1>8, <1>9, <1>10 DEF Next

\* A run that does not project has nothing in hand.
LEMMA IdleHolds == ASSUME NEW w, run[w].pc \notin Projecting PROVE ProjectionHeld(w)
BY DEF ProjectionHeld, Projecting

\* A step that leaves the ref, the stamp and the documents as they are keeps what every
\* other run has in hand, and the diff may only be forgotten.
LEMMA NothingMoves ==
    ASSUME InStep, NEW w \in Workers, UNCHANGED <<ref, rows, stamp, documents>>,
           changes' = changes \/ changes' = NoChanges,
           \A v \in Workers : v # w => run'[v] = run[v],
           run[w].pc \notin Projecting, run'[w].pc \notin Projecting
    PROVE  InStep'
<1>1. SoleProjector'
    BY DEF InStep, SoleProjector
<1>2. DiffApplies' => DiffApplies /\ changes' = changes
    BY DEF DiffApplies, NoChanges
<1>3. ASSUME NEW v \in Workers PROVE ProjectionHeld(v)'
    <2>1. CASE v = w
        BY <2>1 DEF ProjectionHeld, Projecting
    <2>2. CASE v # w
        BY <2>2, <1>2 DEF InStep, ProjectionHeld, Applied, Upserts, ChunksOf
    <2> QED BY <2>1, <2>2
<1>4. StampHeld'
    <2>1. ChunksOf(documents)' = ChunksOf(documents) /\ ChunksOf(rows)' = ChunksOf(rows)
        BY DEF ChunksOf
    <2>2. (\A v \in Workers : run'[v].pc \notin {"load", "fill", "mark"})
            => \A v \in Workers : run[v].pc \notin {"load", "fill", "mark"}
        BY DEF Projecting
    <2> QED BY <2>1, <2>2 DEF InStep, StampHeld
<1>5. DiffHeld'
    BY <1>2 DEF InStep, DiffHeld, Applied, Upserts, ChunksOf
<1> QED BY <1>1, <1>3, <1>4, <1>5 DEF InStep

\* A step of the one run that projects.
LEMMA ProjectorMoves ==
    ASSUME InStep, NEW w \in Workers, run[w].pc \in Projecting,
           \A v \in Workers : v # w => run'[v] = run[v],
           ProjectionHeld(w)', StampHeld', DiffHeld'
    PROVE  InStep'
<1>1. \A v \in Workers : v # w => run[v].pc \notin Projecting /\ run'[v].pc \notin Projecting
    BY DEF InStep, SoleProjector
<1>2. SoleProjector'
    BY <1>1 DEF SoleProjector
<1>3. \A v \in Workers : ProjectionHeld(v)'
    BY <1>1 DEF ProjectionHeld, Projecting
<1> QED BY <1>2, <1>3 DEF InStep

\* A publish that overtakes nobody finds the stores as the stamp says, and the diff it
\* records leads from them to the new rows.
LEMMA PublishKeepsStep ==
    ASSUME RunShape, InStep, NEW w \in Workers, PublishFull(w) \/ PublishIncremental(w), ~overtaken'
    PROVE  InStep'
<1>1. /\ run[w].pc = "idle" /\ run' = [run EXCEPT ![w].pc = "decide"] /\ UNCHANGED <<stamp, documents>>
      /\ ref'.commit = head /\ ~Overtakes(w)
    <2>1. IndexRun(w) /\ ref' = Current /\ overtaken' = (overtaken \/ Overtakes(w))
        BY DEF PublishFull, PublishIncremental
    <2>2. ref'.commit = head
        BY <2>1 DEF Current
    <2> QED BY <2>1, <2>2 DEF IndexRun, storeVars
<1>2. stamp'.commit # ref'.commit /\ \A v \in Workers : run[v].pc \notin Projecting
    BY <1>1 DEF Overtakes, Alone, Projecting
<1>3. \A v \in Workers : run'[v].pc \notin Projecting
    BY <1>1, <1>2 DEF RunShape, NoRun, Projecting
<1>4. SoleProjector'
    BY <1>3 DEF SoleProjector
<1>5. \A v \in Workers : ProjectionHeld(v)'
    BY <1>3 DEF ProjectionHeld, Projecting
<1>6. StampHeld'
    BY <1>2 DEF StampHeld
<1>7. DiffHeld'
    <2>1. CASE PublishFull(w)
        BY <2>1 DEF PublishFull, DiffHeld, DiffApplies
    <2>2. CASE PublishIncremental(w)
        <3> DEFINE changed == {p \in Paths : ref.tree[p] # content[p]}
                   gone == {r \in rows : r.path \in changed}
                   new == RowsOf(changed)
        <3>1. /\ rows' = (rows \ gone) \cup new
              /\ changes' = [kind |-> "incremental", from |-> ref.commit,
                             deleted |-> ChunksOf(gone), upserts |-> {r.path : r \in new}]
            BY <2>2 DEF PublishIncremental
        <3>2. \A r \in new : r.path \in changed
            BY DEF RowsOf
        <3>3. SUFFICES ASSUME stamp.commit = ref.commit
                       PROVE  (ChunksOf(documents) \ ChunksOf(gone)) \cup ChunksOf(Upserts') = ChunksOf(rows')
            <4>1. (ChunksOf(documents) \ changes'.deleted) \cup ChunksOf(Upserts') = Applied(changes.deleted, Upserts)'
                BY <1>1 DEF Applied, ChunksOf
            <4> HIDE DEF gone
            <4> QED BY <4>1, <3>1, <1>1 DEF DiffHeld, DiffApplies, ChunksOf
        <3>4. ChunksOf(documents) = ChunksOf(rows)
            BY <1>2, <3>3 DEF InStep, StampHeld, Projecting
        <3>5. Upserts' = {r \in rows' : r.path \in {s.path : s \in new}}
            BY <3>1 DEF Upserts
        <3>6. Upserts' = new
            <4> HIDE DEF changed, new
            <4>1. \A r \in rows \ gone : r.path \notin changed
                OBVIOUS
            <4> HIDE DEF gone
            <4> QED BY <3>1, <3>2, <3>5, <4>1
        <3>7. ChunksOf(rows) \ ChunksOf(gone) = ChunksOf(rows \ gone)
            <4> HIDE DEF changed
            <4>1. \A r \in rows, s \in gone : Chunk(r) = Chunk(s) => r \in gone
                BY ChunkFields
            <4>2. gone \subseteq rows
                OBVIOUS
            <4> HIDE DEF gone
            <4> QED BY <4>1, <4>2 DEF ChunksOf
        <3>8. ChunksOf(rows') = ChunksOf(rows \ gone) \cup ChunksOf(new)
            <4> HIDE DEF gone, new
            <4> QED BY <3>1 DEF ChunksOf
        <3> HIDE DEF gone, new
        <3> QED BY <3>4, <3>6, <3>7, <3>8
    <2> QED BY <2>1, <2>2
<1> QED BY <1>4, <1>5, <1>6, <1>7 DEF InStep

\* What a run decides to do fits what the index has.
LEMMA DecideKeepsStep ==
    ASSUME RunShape, InStep, NEW w \in Workers, Decide(w), ~overtaken'
    PROVE  InStep'
<1>1. /\ run[w].pc = "decide" /\ UNCHANGED <<ref, rows, changes, permitted, stamp, documents>> /\ Alone(w)
      /\ w \in DOMAIN run
    BY DEF Decide, dbVars, storeVars, RunShape
<1>2. \A v \in Workers : v # w => run'[v] = run[v] /\ run[v].pc \notin Projecting
    BY <1>1 DEF Decide, Alone, RunShape
<1>3. run[w].pc \notin Projecting
    BY <1>1 DEF Projecting
<1>4. SoleProjector'
    BY <1>2 DEF SoleProjector
<1>5. StampHeld'
    <2>1. \A v \in Workers : run[v].pc \notin {"load", "fill", "mark"}
        BY <1>2, <1>3 DEF Projecting
    <2> QED BY <1>1, <2>1 DEF InStep, StampHeld, ChunksOf
<1>6. DiffHeld'
    BY <1>1 DEF InStep, DiffHeld, DiffApplies, Applied, Upserts, ChunksOf
<1>7. ProjectionHeld(w)'
    <2>1. CASE stamp.commit = ref.commit /\ stamp.principals = permitted
        <3>1. run'[w].pc = "vclear"
            BY <1>1, <2>1 DEF Decide, NoRun
        <3> QED BY <3>1 DEF ProjectionHeld
    <2>2. CASE stamp.commit \notin {NoCommit, ref.commit} /\ DiffApplies
        <3>1. run'[w] = [pc |-> "bulk", principals |-> permitted, deleted |-> changes.deleted,
                         docs |-> DocumentsOf(Upserts, permitted)]
            BY <1>1, <2>2 DEF Decide, Upserts
        <3>2. Applied(run'[w].deleted, run'[w].docs) = ChunksOf(rows)
            BY <2>2, <3>1, DocumentChunks DEF InStep, DiffHeld, Applied
        <3>3. ChunksOf(run'[w].docs) = ChunksOf(Upserts)
            BY <3>1, DocumentChunks
        <3>4. /\ Applied(run'[w].deleted, run'[w].docs) = Applied(run[w].deleted, run[w].docs)'
              /\ ChunksOf(rows)' = ChunksOf(rows) /\ ChunksOf(Upserts)' = ChunksOf(Upserts)
            BY <1>1 DEF Applied, ChunksOf, Upserts
        <3>5. ChunksOf(run'[w].docs) = ChunksOf(run[w].docs)' /\ run'[w].deleted = changes'.deleted
            BY <1>1, <3>1 DEF ChunksOf
        <3> QED BY <1>1, <2>2, <3>1, <3>2, <3>3, <3>4, <3>5 DEF ProjectionHeld
    <2>3. CASE /\ ~(stamp.commit = ref.commit /\ stamp.principals = permitted)
               /\ ~(stamp.commit \notin {NoCommit, ref.commit} /\ DiffApplies)
        <3>1. run'[w].pc = "clear"
            BY <1>1, <2>3 DEF Decide, NoRun
        <3>2. ~DiffApplies \/ stamp.commit = ref.commit
            BY <2>3 DEF RunShape, DiffApplies
        <3> QED BY <1>1, <3>1, <3>2 DEF ProjectionHeld, DiffApplies
    <2> QED BY <2>1, <2>2, <2>3
<1>8. \A v \in Workers : ProjectionHeld(v)'
    <2>1. ASSUME NEW v \in Workers, v # w PROVE ProjectionHeld(v)'
        BY <1>2, <2>1 DEF ProjectionHeld, Projecting
    <2> QED BY <1>7, <2>1
<1> QED BY <1>4, <1>5, <1>6, <1>8 DEF InStep

\* The requests of a projection: the diff or the whole ref, and what is left of one that fails.
LEMMA ProjectionKeepsStep ==
    ASSUME RunShape, InStep, NEW w \in Workers, ~overtaken',
           \/ Bulk(w) \/ Clear(w) \/ Load(w) \/ Fill(w) \/ Mark(w)
           \/ run[w].pc \in Projecting
                /\ (Fail(w) \/ \E cut \in SUBSET run[w].deleted, some \in SUBSET run[w].docs : BulkFails(w, cut, some))
    PROVE  InStep'
<1>1. /\ UNCHANGED <<ref, rows, changes>> /\ \A v \in Workers : v # w => run'[v] = run[v]
      /\ w \in DOMAIN run /\ DOMAIN run[w] = {"pc", "principals", "deleted", "docs"}
    BY DEF Bulk, Clear, Load, Fill, Mark, Fail, BulkFails, dbVars, RunShape, NoRun
<1>2. /\ ChunksOf(rows)' = ChunksOf(rows) /\ ChunksOf(Upserts)' = ChunksOf(Upserts)
      /\ Applied(changes.deleted, Upserts)' = (ChunksOf(documents') \ changes.deleted) \cup ChunksOf(Upserts)
      /\ Applied(changes.deleted, Upserts) = (ChunksOf(documents) \ changes.deleted) \cup ChunksOf(Upserts)
      /\ ChunksOf(documents)' = ChunksOf(documents')
    BY <1>1 DEF ChunksOf, Upserts, Applied
<1>3. stamp' = stamp => (DiffApplies' <=> DiffApplies)
    BY <1>1 DEF DiffApplies
<1>4. ProjectionHeld(w) /\ StampHeld /\ DiffHeld
    BY DEF InStep
<1> DEFINE Had == ChunksOf(documents)
           Cut == run[w].deleted
           Sent == ChunksOf(run[w].docs)
<1>5. ASSUME run[w].pc = "bulk"
      PROVE  /\ stamp.commit # ref.commit
             /\ (Had \ Cut) \cup Sent = ChunksOf(rows)
             /\ DiffApplies => Cut = changes.deleted /\ Sent = ChunksOf(Upserts)
    BY <1>4, <1>5 DEF ProjectionHeld, Applied
<1> HIDE DEF Had, Cut, Sent
<1>6. CASE Bulk(w)
    <2>1. /\ run[w].pc = "bulk" /\ run'[w].pc = "mark" /\ stamp' = stamp
          /\ documents' = Indexed({d \in documents : Chunk(d) \notin run[w].deleted}, run[w].docs)
        BY <1>1, <1>6 DEF Bulk
    <2>2. ChunksOf(documents') = (Had \ Cut) \cup Sent
        BY <2>1 DEF Had, Cut, Sent, ChunksOf, Indexed
    <2>3. ProjectionHeld(w)'
        BY <1>2, <1>5, <2>1, <2>2 DEF ProjectionHeld
    <2>4. StampHeld'
        BY <1>1, <1>5, <2>1 DEF StampHeld
    <2>5. DiffHeld'
        BY <1>1, <1>2, <1>3, <1>5, <2>1, <2>2 DEF DiffHeld
    <2> QED BY <1>1, <2>1, <2>3, <2>4, <2>5, ProjectorMoves DEF Projecting
<1>7. CASE Clear(w)
    <2>0. run[w].pc = "clear" /\ Alone(w)
        BY <1>7 DEF Clear, InStep, SoleProjector, Alone, Projecting
    <2>1. run[w].pc = "clear" /\ run'[w].pc = "load" /\ stamp' = stamp /\ documents' = {}
        BY <1>1, <1>7, <2>0 DEF Clear
    <2>2. ~DiffApplies \/ stamp.commit = ref.commit
        BY <1>4, <2>1 DEF ProjectionHeld
    <2>3. ProjectionHeld(w)'
        BY <1>1, <1>3, <2>1, <2>2 DEF ProjectionHeld
    <2>4. StampHeld' /\ DiffHeld'
        BY <1>1, <1>3, <2>1, <2>2 DEF StampHeld, DiffHeld
    <2> QED BY <1>1, <2>1, <2>3, <2>4, ProjectorMoves DEF Projecting
<1>8. CASE Load(w)
    <2>1. /\ run[w].pc = "load" /\ run'[w].pc = "fill" /\ UNCHANGED <<stamp, documents>>
          /\ run'[w].docs = DocumentsOf(rows, run[w].principals)
        BY <1>1, <1>8 DEF Load, storeVars
    <2>2. (~DiffApplies \/ stamp.commit = ref.commit) /\ documents = {}
        BY <1>4, <2>1 DEF ProjectionHeld
    <2>3. ChunksOf(run[w].docs)' = ChunksOf(rows)'
        <3>1. ChunksOf(run'[w].docs) = ChunksOf(rows)
            BY <2>1, DocumentChunks
        <3> QED BY <1>2, <3>1 DEF ChunksOf
    <2>4. ProjectionHeld(w)'
        BY <1>1, <1>3, <2>1, <2>2, <2>3 DEF ProjectionHeld
    <2>5. StampHeld' /\ DiffHeld'
        BY <1>1, <1>3, <2>1, <2>2 DEF StampHeld, DiffHeld
    <2> QED BY <1>1, <2>1, <2>4, <2>5, ProjectorMoves DEF Projecting
<1>9. CASE Fill(w)
    <2>1. /\ run[w].pc = "fill" /\ run'[w].pc = "mark" /\ stamp' = stamp
          /\ documents' = Indexed(documents, run[w].docs)
        BY <1>1, <1>9 DEF Fill
    <2>2. /\ ~DiffApplies \/ stamp.commit = ref.commit
          /\ documents = {} /\ ChunksOf(run[w].docs) = ChunksOf(rows)
        BY <1>4, <2>1 DEF ProjectionHeld
    <2>3. ChunksOf(documents') = ChunksOf(rows)
        <3>1. documents' = run[w].docs
            BY <2>1, <2>2 DEF Indexed
        <3> QED BY <2>2, <3>1
    <2>4. ProjectionHeld(w)'
        BY <1>1, <1>2, <1>3, <2>1, <2>2, <2>3 DEF ProjectionHeld
    <2>5. StampHeld' /\ DiffHeld'
        BY <1>1, <1>3, <2>1, <2>2 DEF StampHeld, DiffHeld
    <2> QED BY <1>1, <2>1, <2>4, <2>5, ProjectorMoves DEF Projecting
<1>10. CASE Mark(w)
    <2>1. /\ run[w].pc = "mark" /\ run'[w].pc = "vclear" /\ documents' = documents
          /\ stamp'.commit = ref.commit
        BY <1>1, <1>10 DEF Mark, storeVars, NoRun
    <2>2. ChunksOf(documents') = ChunksOf(rows)
        BY <1>4, <2>1 DEF ProjectionHeld
    <2>3. ProjectionHeld(w)' /\ StampHeld' /\ DiffHeld'
        BY <1>1, <1>2, <2>1, <2>2 DEF ProjectionHeld, StampHeld, DiffHeld
    <2> QED BY <1>1, <2>1, <2>3, ProjectorMoves DEF Projecting
<1>11. CASE run[w].pc \in Projecting /\ Fail(w)
    <2>1. /\ run'[w].pc = "idle" /\ UNCHANGED <<stamp, documents>> /\ ~Emptied(w)
        BY <1>1, <1>11 DEF Fail, storeVars, NoRun
    <2>2. ProjectionHeld(w)'
        BY <2>1 DEF ProjectionHeld
    <2>3. DiffHeld'
        BY <1>1, <1>2, <1>3, <1>4, <2>1 DEF DiffHeld
    <2>4. StampHeld'
        <3> SUFFICES ASSUME stamp.commit = ref.commit,
                            \A v \in Workers : run'[v].pc \notin {"load", "fill", "mark"}
                     PROVE  ChunksOf(documents') = ChunksOf(rows)
            BY <1>1, <1>2, <2>1 DEF StampHeld
        <3>1. \A v \in Workers : run[v].pc \notin {"load", "fill", "mark"}
            BY <1>1, <2>1 DEF Emptied
        <3> QED BY <1>4, <2>1, <3>1 DEF StampHeld
    <2> QED BY <1>1, <1>11, <2>2, <2>3, <2>4, ProjectorMoves
<1>12. ASSUME NEW cut \in SUBSET run[w].deleted, NEW some \in SUBSET run[w].docs,
              BulkFails(w, cut, some)
       PROVE  InStep'
    <2>1. /\ run[w].pc \in {"bulk", "fill"} /\ run'[w].pc = "idle" /\ stamp' = stamp /\ ~Emptied(w)
          /\ documents' = Indexed({d \in documents : Chunk(d) \notin cut}, some)
        BY <1>1, <1>12 DEF BulkFails, AfterFailure
    <2>2. ChunksOf(documents') = (Had \ cut) \cup ChunksOf(some)
        BY <2>1 DEF Had, ChunksOf, Indexed
    <2>3. ChunksOf(some) \subseteq Sent /\ cut \subseteq Cut
        BY DEF Sent, Cut, ChunksOf
    <2>4. ProjectionHeld(w)'
        BY <2>1 DEF ProjectionHeld
    <2>5. stamp.commit # ref.commit
        BY <1>5, <2>1 DEF Emptied
    <2>6. StampHeld'
        BY <1>1, <2>1, <2>5 DEF StampHeld
    <2>7. DiffHeld'
        <3>1. CASE run[w].pc = "bulk"
            <4>1. SUFFICES ASSUME DiffApplies
                           PROVE  (ChunksOf(documents') \ changes.deleted) \cup ChunksOf(Upserts) = ChunksOf(rows)
                BY <1>1, <1>2, <1>3, <2>1 DEF DiffHeld
            <4>2. Cut = changes.deleted /\ Sent = ChunksOf(Upserts) /\ (Had \ Cut) \cup Sent = ChunksOf(rows)
                BY <1>5, <3>1, <4>1
            <4> QED BY <2>2, <2>3, <4>2
        <3>2. CASE run[w].pc = "fill"
            BY <1>1, <1>3, <1>4, <2>1, <2>5, <3>2 DEF DiffHeld, ProjectionHeld
        <3> QED BY <2>1, <3>1, <3>2
    <2> QED BY <1>1, <2>1, <2>4, <2>6, <2>7, ProjectorMoves DEF Projecting
<1> QED BY <1>6, <1>7, <1>8, <1>9, <1>10, <1>11, <1>12

LEMMA ProjectionInit == Init => ProjectionInv
<1> SUFFICES ASSUME Init PROVE ProjectionInv
    OBVIOUS
<1>1. \A w \in Workers : run[w] = NoRun /\ NoRun.pc = "idle"
    BY DEF Init, NoRun
<1>2. RunShape
    BY <1>1 DEF Init, RunShape, NoChanges
<1>3. SoleProjector /\ \A w \in Workers : ProjectionHeld(w)
    BY <1>1 DEF SoleProjector, ProjectionHeld, Projecting
<1>4. StampHeld /\ DiffHeld
    BY DEF Init, StampHeld, DiffHeld, DiffApplies, NoChanges, ChunksOf
<1> QED BY <1>2, <1>3, <1>4 DEF ProjectionInv, InStep

LEMMA ProjectionStep == ProjectionInv /\ [Next]_vars => ProjectionInv'
<1> SUFFICES ASSUME ProjectionInv, [Next]_vars, ~overtaken' PROVE InStep'
    BY ProjectionShape DEF ProjectionInv
<1>1. ~overtaken
    BY DEF Next, Push, ForcePush, ChangeSettings, ForgetChanges, vars, Project, Unchanged, PublishFull,
           PublishIncremental, Decide, Bulk, Clear, Load, Fill, Mark, BulkFails, Fail, ClearVectors,
           FillVectors
<1>2. RunShape /\ InStep
    BY <1>1 DEF ProjectionInv
<1>3. ASSUME UNCHANGED <<ref, rows, stamp, documents, run>>, changes' = changes \/ changes' = NoChanges
      PROVE  InStep'
    <2>1. SoleProjector'
        BY <1>2, <1>3 DEF InStep, SoleProjector
    <2>2. DiffApplies' => DiffApplies /\ changes' = changes
        BY <1>3 DEF DiffApplies, NoChanges
    <2>3. ASSUME NEW w \in Workers PROVE ProjectionHeld(w)'
        BY <1>2, <1>3, <2>2 DEF InStep, ProjectionHeld, Applied, Upserts, ChunksOf
    <2>4. StampHeld'
        BY <1>2, <1>3 DEF InStep, StampHeld, ChunksOf
    <2>5. DiffHeld'
        BY <1>2, <1>3, <2>2 DEF InStep, DiffHeld, Applied, Upserts, ChunksOf
    <2> QED BY <2>1, <2>3, <2>4, <2>5 DEF InStep
<1>4. CASE \/ \E t \in Trees : Push(t)
           \/ \E c \in DOMAIN trees : ForcePush(c)
           \/ \E who \in SUBSET Principals, p \in {"narrow", "wide"}, m \in Models : ChangeSettings(who, p, m)
           \/ UNCHANGED vars
    BY <1>3, <1>4 DEF Push, ForcePush, ChangeSettings, vars, dbVars, storeVars
<1>5. CASE ForgetChanges
    BY <1>3, <1>5 DEF ForgetChanges, storeVars
<1>6. ASSUME NEW w \in Workers, Project(w) PROVE InStep'
    <2>1. DOMAIN run = Workers /\ DOMAIN run[w] = {"pc", "principals", "deleted", "docs"}
        BY <1>2 DEF RunShape, NoRun
    <2>2. CASE Unchanged(w)
        BY <1>2, <2>1, <2>2, NothingMoves DEF Unchanged, IndexRun, storeVars, Projecting
    <2>3. CASE PublishFull(w) \/ PublishIncremental(w)
        BY <1>2, <2>3, PublishKeepsStep
    <2>4. CASE Decide(w)
        BY <1>2, <2>4, DecideKeepsStep
    <2>5. CASE \/ Bulk(w) \/ Clear(w) \/ Load(w) \/ Fill(w) \/ Mark(w)
               \/ run[w].pc \in Projecting
                    /\ (Fail(w) \/ \E cut \in SUBSET run[w].deleted, some \in SUBSET run[w].docs : BulkFails(w, cut, some))
        BY <1>2, <2>5, ProjectionKeepsStep
    <2>6. CASE run[w].pc \notin Projecting
                 /\ (Fail(w) \/ \E cut \in SUBSET run[w].deleted, some \in SUBSET run[w].docs : BulkFails(w, cut, some))
        <3>1. Fail(w)
            BY <2>6 DEF BulkFails, Projecting
        <3> QED BY <1>2, <2>1, <2>6, <3>1, NothingMoves DEF Fail, dbVars, storeVars, Projecting, NoRun
    <2>7. CASE ClearVectors(w) \/ FillVectors(w)
        BY <1>2, <2>1, <2>7, NothingMoves DEF ClearVectors, FillVectors, dbVars, Projecting, NoRun
    <2> QED BY <1>6, <2>2, <2>3, <2>4, <2>5, <2>6, <2>7 DEF Project
<1> QED BY <1>4, <1>5, <1>6 DEF Next

-----------------------------------------------------------------------------
(* VectorStore: the pages of a projection.                                 *)

\* The ids of a set before one, and how many they are.
Below(set, i) == {j \in set : j < i}
Rank(set, i) == Cardinality(Below(set, i))

\* VectorStore counts as this module does.
LEMMA SameCount == \A set : V!Cardinality(set) = Cardinality(set)
BY DEF V!Cardinality, Cardinality

\* The number of ids before one in a set grows along the set.
LEMMA RankGrows ==
    ASSUME NEW left \in SUBSET Ids, NEW x \in left, NEW y \in left, x < y
    PROVE  Rank(left, x) \in Nat /\ Rank(left, y) \in Nat /\ Rank(left, x) < Rank(left, y)
<1> DEFINE X == {j \in left : j < x}
           Y == {j \in left : j < y}
<1>1. IsFiniteSet(X) /\ IsFiniteSet(Y)
    BY FS_Subset, VectorAssumption
<1>2. left \subseteq Nat
    BY VectorAssumption
<1>3. X \cup {x} \subseteq Y /\ x \notin X
    <2>1. x \in Nat /\ y \in Nat /\ \A j \in left : j \in Nat
        BY <1>2
    <2>2. \A j \in left : j < x => j < y
        BY <2>1
    <2>3. X \subseteq Y
        BY <2>2
    <2>4. x \in Y
        OBVIOUS
    <2>5. x \notin X
        BY <2>1
    <2> HIDE DEF X, Y
    <2> QED BY <2>3, <2>4, <2>5
<1> HIDE DEF X, Y
<1>4. Cardinality(X \cup {x}) = Cardinality(X) + 1
    BY <1>1, <1>3, FS_AddElement
<1>5. Cardinality(X \cup {x}) <= Cardinality(Y)
    BY <1>1, <1>3, FS_Subset
<1>6. Cardinality(X) \in Nat /\ Cardinality(Y) \in Nat
    BY <1>1, FS_CardinalityType
<1>7. Cardinality(X) < Cardinality(Y)
    BY <1>4, <1>5, <1>6
<1> QED BY <1>6, <1>7 DEF X, Y, Rank, Below

\* A set of ids has a greatest one: the one with the most before it.
LEMMA LastId ==
    ASSUME NEW set \in SUBSET Ids, set # {}
    PROVE  V!Max(set) \in set /\ \A y \in set : y <= V!Max(set)
<1> DEFINE rank(i) == Rank(set, i)
           ranks == {rank(i) : i \in set}
<1>1. IsFiniteSet(set) /\ Cardinality(set) \in Nat /\ set \subseteq Nat
    BY FS_Subset, FS_CardinalityType, VectorAssumption
<1>2. ASSUME NEW i \in set PROVE rank(i) \in 0..Cardinality(set)
    <2>1. Below(set, i) \in SUBSET set
        BY DEF Below
    <2>2. IsFiniteSet(Below(set, i)) /\ rank(i) <= Cardinality(set)
        BY <1>1, <2>1, FS_Subset DEF Rank
    <2>3. rank(i) \in Nat
        BY <2>2, FS_CardinalityType DEF Rank
    <2> QED BY <1>1, <2>2, <2>3
<1>3. PICK x \in ranks : \A y \in ranks : y <= x
    <2>1. ranks \in SUBSET (0..Cardinality(set)) /\ ranks # {}
        <3> HIDE DEF rank
        <3> QED BY <1>2
    <2> HIDE DEF ranks
    <2> QED BY <1>1, <2>1, Greatest
<1>4. PICK i \in set : \A j \in set : rank(j) <= rank(i)
    <2> HIDE DEF rank
    <2> QED BY <1>3
<1>5. ASSUME NEW y \in set PROVE y <= i
    <2>1. CASE i < y
        <3>1. rank(i) < rank(y) /\ rank(i) \in Nat /\ rank(y) \in Nat
            BY <2>1, RankGrows
        <3> HIDE DEF rank
        <3> QED BY <1>4, <3>1
    <2> QED BY <1>1, <2>1
<1>6. \E z \in set : \A y \in set : z >= y
    BY <1>1, <1>5
<1>7. V!Max(set) \in set /\ \A y \in set : V!Max(set) >= y
    BY <1>6 DEF V!Max
<1> QED BY <1>1, <1>7

\* A page is the first ids that are left; one that is not full is all of them.
LEMMA PageIsFirst ==
    ASSUME NEW left \in SUBSET Ids, NEW page,
           \A i : i \in page <=> i \in left /\ Rank(left, i) < PageSize
    PROVE  /\ \A x \in left, y \in page : x <= y => x \in page
           /\ Cardinality(page) < PageSize => page = left
<1>1. left \subseteq Nat /\ page \subseteq left /\ IsFiniteSet(page) /\ PageSize \in Nat
    BY FS_Subset, VectorAssumption
<1>2. ASSUME NEW x \in left, NEW y \in page, x <= y PROVE x \in page
    <2>1. y \in left /\ Rank(left, y) < PageSize
        OBVIOUS
    <2>2. CASE x < y
        <3>1. Rank(left, x) < Rank(left, y) /\ Rank(left, x) \in Nat /\ Rank(left, y) \in Nat
            BY <2>1, <2>2, RankGrows
        <3> QED BY <1>1, <2>1, <3>1
    <2>3. CASE x = y
        BY <2>3
    <2>4. x \in Nat /\ y \in Nat
        BY <1>1, <2>1
    <2> QED BY <1>2, <2>2, <2>3, <2>4
<1>3. ASSUME Cardinality(page) < PageSize, page # left PROVE FALSE
    <2> DEFINE out == left \ page
    <2>1. out \subseteq Nat /\ out # {}
        BY <1>1, <1>3
    <2>2. PICK x \in out : \A y \in out : ~(<<y, x>> \in OpToRel(<, Nat))
        <3> HIDE DEF out
        <3> QED BY <2>1, NatLessThanWellFounded, WFMin
    <2>3. Below(left, x) \subseteq page
        <3>1. ASSUME NEW j \in left, j < x PROVE j \in page
            BY <1>1, <2>2, <3>1 DEF OpToRel
        <3> QED BY <3>1 DEF Below
    <2>4. Rank(left, x) <= Cardinality(page) /\ IsFiniteSet(Below(left, x))
        BY <1>1, <2>3, FS_Subset DEF Rank
    <2>5. Rank(left, x) \in Nat /\ Cardinality(page) \in Nat
        BY <1>1, <2>4, FS_CardinalityType DEF Rank
    <2>6. x \in left /\ x \notin page
        OBVIOUS
    <2> QED BY <1>1, <1>3, <2>4, <2>5, <2>6
<1> QED BY <1>2, <1>3

\* Refs divide the chunks.
LEMMA Scopes ==
    /\ \A r \in V!Refs : r \notin {None, V!Everything} /\ V!IdsOf(r) # {} /\ V!IdsOf(r) \subseteq Ids
    /\ \A r, q \in V!Refs : r # q => V!IdsOf(r) \cap V!IdsOf(q) = {}
    /\ V!IdsOf(V!Everything) = Ids /\ V!Everything # None
<1>1. V!Everything # None /\ {None, V!Everything} \cap V!Refs = {}
    BY VectorAssumption DEF V!Everything, V!Refs
<1>2. V!IdsOf(V!Everything) = Ids
    BY DEF V!IdsOf
<1>3. \A r \in V!Refs : V!IdsOf(r) = {i \in Ids : RefOf[i] = r}
    BY <1>1 DEF V!IdsOf
<1>4. \A r \in V!Refs : \E i \in Ids : RefOf[i] = r
    BY DEF V!Refs
<1> QED BY <1>1, <1>2, <1>3, <1>4

LEMMA VectorInit == V!Init => V!VectorInv
<1> SUFFICES ASSUME V!Init PROVE V!VectorInv
    OBVIOUS
<1>1. \A p \in V!Procs : policy[p] = V!Idle
    BY DEF V!Init
<1>2. /\ V!Idle.pc = "idle" /\ V!Idle.scope = None /\ V!Idle.after = 0 /\ V!Idle.last \in BOOLEAN
      /\ V!Idle.alone \in BOOLEAN /\ ~V!Idle.alone
    BY DEF V!Idle
<1>3. V!VectorTypes
    <2>1. /\ model \in Embedders /\ changes = {} /\ DOMAIN policy = V!Procs
          /\ trees \in [Ids -> Embedders \cup {None, "bad"}] /\ vectors \in [Ids -> Embedders \cup {None}]
        BY DEF V!Init
    <2> QED BY <1>1, <1>2, <2>1 DEF V!VectorTypes
<1>4. V!AloneIsAlone /\ \A p \in V!Procs : V!SentSoFar(p)
    BY <1>1, <1>2 DEF V!AloneIsAlone, V!SentSoFar
<1>5. V!SettledIsHeld
    BY DEF V!Init, V!SettledIsHeld
<1> QED BY <1>3, <1>4, <1>5 DEF V!VectorInv

\* A process that works inside its scope, or ends, leaves the others what they have.
LEMMA WorkKeepsInv ==
    ASSUME V!VectorInv, NEW p \in V!Procs, policy[p].pc # "idle", NEW next,
           UNCHANGED <<trees, model>>, policy' = [policy EXCEPT ![p] = next],
           \/ next = V!Idle
           \/ /\ DOMAIN next = DOMAIN V!Idle /\ next.pc \in {"delete", "page", "send"}
              /\ next.after \in Nat /\ next.last \in BOOLEAN
              /\ next.scope = policy[p].scope /\ next.alone = policy[p].alone,
           vectors' \in [Ids -> Embedders \cup {None}],
           \A i \in Ids \ V!IdsOf(policy[p].scope) : vectors'[i] = vectors[i],
           next # V!Idle => V!SentSoFar(p)',
           \/ changes' = changes
           \/ /\ changes' = changes \cup {policy[p].scope} /\ p # Admin /\ policy[p].alone /\ next = V!Idle
              /\ \A i \in V!IdsOf(policy[p].scope) : vectors'[i] = V!Wanted(i),
           p = Admin => \A r \in changes : \A i \in V!IdsOf(r) :
                           /\ vectors'[i] = V!Wanted(i)
                           /\ next.pc = "send" /\ i \in DOMAIN next.batch => next.batch[i] = trees[i]
    PROVE  V!VectorInv'
<1>1. /\ V!VectorTypes /\ V!AloneIsAlone /\ V!SettledIsHeld /\ \A q \in V!Procs : V!SentSoFar(q)
      /\ DOMAIN policy = V!Procs
    BY DEF V!VectorInv, V!VectorTypes
<1>2. policy'[p] = next /\ \A q \in V!Procs : q # p => policy'[q] = policy[q]
    BY <1>1
<1>3. policy[p].scope \in IF p = Admin THEN {V!Everything} ELSE V!Refs
    BY <1>1 DEF V!SentSoFar
<1>4. /\ V!Idle.pc = "idle" /\ V!Idle.scope = None /\ V!Idle.after = 0 /\ V!Idle.last \in BOOLEAN
      /\ V!Idle.alone \in BOOLEAN /\ ~V!Idle.alone
    BY DEF V!Idle
<1>5. /\ \A i : V!Wanted(i)' = V!Wanted(i) /\ V!IdsOf(policy[p].scope) \subseteq Ids
      /\ policy[p].scope # None
    BY <1>3, Scopes DEF V!Wanted
<1>6. V!VectorTypes'
    <2>1. \A q \in V!Procs : /\ DOMAIN policy'[q] = DOMAIN V!Idle
                             /\ policy'[q].pc \in {"idle", "delete", "page", "send"}
                             /\ policy'[q].after \in Nat
                             /\ policy'[q].last \in BOOLEAN
                             /\ policy'[q].alone \in BOOLEAN
        BY <1>1, <1>2, <1>4 DEF V!VectorTypes
    <2>2. changes' \subseteq V!Refs
        BY <1>1, <1>3 DEF V!VectorTypes
    <2> QED BY <1>1, <2>1, <2>2 DEF V!VectorTypes
<1>7. V!AloneIsAlone'
    <2>1. \A q \in V!Procs : policy'[q].scope \in {None, policy[q].scope}
        BY <1>2, <1>4
    <2>2. \A q \in V!Procs : policy'[q].alone => policy[q].alone /\ policy'[q].scope = policy[q].scope
        BY <1>2, <1>4
    <2> QED BY <1>1, <2>1, <2>2 DEF V!AloneIsAlone
<1>8. ASSUME NEW q \in V!Procs PROVE V!SentSoFar(q)'
    <2>1. CASE q = p /\ next = V!Idle
        BY <1>2, <1>4, <2>1 DEF V!SentSoFar
    <2>2. CASE q = p /\ next # V!Idle
        BY <2>2
    <2>3. CASE q # p
        <3>1. policy'[q] = policy[q]
            BY <1>2, <2>3
        <3>2. ASSUME q # Admin, policy[q].alone, policy[q].pc \in {"page", "send"}, NEW i \in V!IdsOf(policy[q].scope)
              PROVE  vectors'[i] = vectors[i] /\ V!Wanted(i)' = V!Wanted(i) /\ trees'[i] = trees[i]
            <4>1. policy[q].scope \in V!Refs
                BY <1>1, <3>2 DEF V!SentSoFar
            <4>2. i \in Ids
                BY <3>2, <4>1, Scopes
            <4>3. V!IdsOf(policy[p].scope) \cap V!IdsOf(policy[q].scope) = {}
                BY <1>1, <1>5, <2>3, <3>2 DEF V!AloneIsAlone
            <4> QED BY <1>5, <3>2, <4>2, <4>3
        <3> QED BY <1>1, <3>1, <3>2 DEF V!SentSoFar
    <2> QED BY <2>1, <2>2, <2>3
<1>9. ASSUME NEW r \in changes'
      PROVE  /\ \A w \in Projectors : policy'[w].scope # r
             /\ \A i \in V!IdsOf(r) : vectors'[i] = V!Wanted(i)'
             /\ policy'[Admin].pc = "send" =>
                   \A i \in V!IdsOf(r) \cap DOMAIN policy'[Admin].batch : policy'[Admin].batch[i] = trees'[i]
    <2>1. r \in V!Refs /\ V!IdsOf(r) \subseteq Ids /\ V!IdsOf(r) # {} /\ r # None /\ Projectors \subseteq V!Procs
          /\ Admin \in V!Procs /\ Admin \notin Projectors
        BY <1>6, Scopes, VectorAssumption DEF V!VectorTypes, V!Procs
    <2>2. CASE r \in changes
        <3>1. \A w \in Projectors : policy'[w].scope # r
            BY <1>1, <1>2, <1>4, <2>1, <2>2 DEF V!SettledIsHeld
        <3>2. CASE p = Admin
            BY <1>2, <1>5, <2>2, <3>1, <3>2
        <3>3. CASE p # Admin
            <4>1. policy[p].scope \in V!Refs /\ policy[p].scope # r
                BY <1>1, <1>3, <2>2, <3>3 DEF V!SettledIsHeld, V!Procs
            <4>2. V!IdsOf(policy[p].scope) \cap V!IdsOf(r) = {}
                BY <2>1, <4>1, Scopes
            <4>3. \A i \in V!IdsOf(r) : vectors'[i] = vectors[i]
                BY <2>1, <4>2
            <4>4. policy'[Admin] = policy[Admin]
                BY <1>2, <2>1, <3>3
            <4> QED BY <1>1, <1>5, <2>1, <2>2, <3>1, <4>3, <4>4 DEF V!SettledIsHeld
        <3> QED BY <3>2, <3>3
    <2>3. CASE r \notin changes
        <3>1. /\ r = policy[p].scope /\ p # Admin /\ policy[p].alone /\ next = V!Idle
              /\ \A i \in V!IdsOf(r) : vectors'[i] = V!Wanted(i)
            BY <2>3
        <3>2. \A q \in V!Procs : q # p => \/ policy[q].scope = None
                                          \/ V!IdsOf(policy[q].scope) \cap V!IdsOf(r) = {}
            BY <1>1, <3>1 DEF V!AloneIsAlone
        <3>3. \A w \in Projectors : policy'[w].scope # r
            <4>1. ASSUME NEW w \in Projectors, policy[w].scope = r PROVE w = p
                BY <2>1, <3>2, <4>1
            <4> QED BY <1>2, <1>4, <2>1, <3>1, <4>1
        <3>4. policy'[Admin].pc # "send"
            <4>1. policy[Admin].pc # "idle" => policy[Admin].scope = V!Everything
                BY <1>1, <2>1 DEF V!SentSoFar
            <4>2. policy[Admin].pc = "idle"
                BY <2>1, <3>1, <3>2, <4>1, Scopes
            <4> QED BY <1>2, <2>1, <3>1, <4>2
        <3> QED BY <1>5, <3>1, <3>3, <3>4
    <2> QED BY <2>2, <2>3
<1>10. V!SettledIsHeld'
    BY <1>9 DEF V!SettledIsHeld
<1> QED BY <1>6, <1>7, <1>8, <1>10 DEF V!VectorInv

\* What the others are after a process started on a scope.
LEMMA StartedState ==
    ASSUME V!VectorInv, NEW p \in V!Procs, NEW s, NEW pc, V!Start(p, s, pc)
    PROVE  /\ DOMAIN policy' = V!Procs
           /\ policy'[p].pc = pc /\ policy'[p].scope = s /\ policy'[p].after = 0
           /\ policy'[p].last \in BOOLEAN /\ policy'[p].alone \in BOOLEAN
           /\ DOMAIN policy'[p] = DOMAIN V!Idle
           /\ policy'[p].alone => \A q \in V!Procs \ {p} :
                 policy[q].scope = None \/ V!IdsOf(policy[q].scope) \cap V!IdsOf(s) = {}
           /\ \A q \in V!Procs \ {p} :
                 /\ DOMAIN policy'[q] = DOMAIN V!Idle
                 /\ policy'[q].pc = policy[q].pc /\ policy'[q].scope = policy[q].scope
                 /\ policy'[q].after = policy[q].after /\ policy'[q].batch = policy[q].batch
                 /\ policy'[q].last = policy[q].last /\ policy'[q].alone \in BOOLEAN
                 /\ policy'[q].alone => policy[q].alone
                 /\ policy'[q].alone => policy[q].scope = None
                                           \/ V!IdsOf(policy[q].scope) \cap V!IdsOf(s) = {}
<1>1. /\ \A q \in V!Procs : DOMAIN policy[q] = DOMAIN V!Idle /\ policy[q].alone \in BOOLEAN
      /\ DOMAIN V!Idle = {"pc", "scope", "after", "batch", "last", "alone"}
    BY DEF V!VectorInv, V!VectorTypes, V!Idle
<1> DEFINE free == \A q \in V!Procs \ {p} : policy[q].scope = None \/ V!IdsOf(policy[q].scope) \cap V!IdsOf(s) = {}
           new == [V!Idle EXCEPT !.pc = pc, !.scope = s, !.alone = free]
           rest == V!Disturbed(s)
<1>2. policy' = [rest EXCEPT ![p] = new] /\ DOMAIN rest = V!Procs
    BY DEF V!Start, V!Disturbed
<1>3. /\ new.pc = pc /\ new.scope = s /\ new.after = 0 /\ new.last \in BOOLEAN /\ new.alone \in BOOLEAN
      /\ DOMAIN new = DOMAIN V!Idle
    BY <1>1 DEF V!Idle
<1>4. new.alone => free
    BY <1>1
<1>5. ASSUME NEW q \in V!Procs \ {p}
      PROVE  /\ DOMAIN rest[q] = DOMAIN V!Idle
             /\ rest[q].pc = policy[q].pc /\ rest[q].scope = policy[q].scope
             /\ rest[q].after = policy[q].after /\ rest[q].batch = policy[q].batch
             /\ rest[q].last = policy[q].last /\ rest[q].alone \in BOOLEAN
             /\ rest[q].alone => policy[q].alone
             /\ rest[q].alone => policy[q].scope = None \/ V!IdsOf(policy[q].scope) \cap V!IdsOf(s) = {}
    <2>1. CASE policy[q].scope # None /\ V!IdsOf(policy[q].scope) \cap V!IdsOf(s) # {}
        <3>1. rest[q] = [policy[q] EXCEPT !.alone = FALSE]
            BY <2>1 DEF V!Disturbed
        <3> HIDE DEF rest
        <3> QED BY <1>1, <3>1
    <2>2. CASE ~(policy[q].scope # None /\ V!IdsOf(policy[q].scope) \cap V!IdsOf(s) # {})
        <3>1. rest[q] = policy[q]
            BY <2>2 DEF V!Disturbed
        <3> HIDE DEF rest
        <3> QED BY <1>1, <2>2, <3>1
    <2> QED BY <2>1, <2>2
<1> HIDE DEF new, rest
<1>6. policy'[p] = new /\ \A q \in V!Procs \ {p} : policy'[q] = rest[q]
    BY <1>2
<1> QED BY <1>2, <1>3, <1>4, <1>5, <1>6

\* A process that starts on a scope ends the peace of everyone it meets there.
LEMMA StartKeepsInv ==
    ASSUME V!VectorInv, NEW p \in V!Procs, NEW s, NEW pc, V!Start(p, s, pc), policy[p].pc = "idle",
           model' = model, vectors' = vectors, trees' \in [Ids -> Embedders \cup {None, "bad"}],
           \/ p = Admin /\ s = V!Everything /\ pc = "page" /\ trees' = trees /\ changes' = changes
           \/ /\ p # Admin /\ s \in V!Refs /\ pc = "delete" /\ changes' = changes \ {s}
              /\ \A i \in Ids \ V!IdsOf(s) : trees'[i] = trees[i]
    PROVE  V!VectorInv'
<1>1. /\ V!VectorTypes /\ V!AloneIsAlone /\ V!SettledIsHeld /\ \A q \in V!Procs : V!SentSoFar(q)
    BY DEF V!VectorInv
<1>2. /\ DOMAIN policy' = V!Procs
      /\ policy'[p].pc = pc /\ policy'[p].scope = s /\ policy'[p].after = 0
      /\ policy'[p].last \in BOOLEAN /\ policy'[p].alone \in BOOLEAN
      /\ DOMAIN policy'[p] = DOMAIN V!Idle
    BY StartedState
<1>3. policy'[p].alone => \A q \in V!Procs \ {p} :
          policy[q].scope = None \/ V!IdsOf(policy[q].scope) \cap V!IdsOf(s) = {}
    BY StartedState
<1>4. \A q \in V!Procs \ {p} :
          /\ DOMAIN policy'[q] = DOMAIN V!Idle
          /\ policy'[q].pc = policy[q].pc /\ policy'[q].scope = policy[q].scope
          /\ policy'[q].after = policy[q].after /\ policy'[q].batch = policy[q].batch
          /\ policy'[q].last = policy[q].last /\ policy'[q].alone \in BOOLEAN
          /\ policy'[q].alone => policy[q].alone
          /\ policy'[q].alone => policy[q].scope = None \/ V!IdsOf(policy[q].scope) \cap V!IdsOf(s) = {}
    BY StartedState
<1>5. /\ Admin \in V!Procs /\ Projectors \subseteq V!Procs /\ Admin \notin Projectors
      /\ p # Admin => p \in Projectors
    BY VectorAssumption DEF V!Procs
<1>6. V!IdsOf(s) \subseteq Ids /\ s # None /\ s \in V!Refs \cup {V!Everything}
    BY Scopes
<1>7. V!VectorTypes'
    <2>1. \A q \in V!Procs : /\ DOMAIN policy'[q] = DOMAIN V!Idle
                             /\ policy'[q].pc \in {"idle", "delete", "page", "send"}
                             /\ policy'[q].after \in Nat
                             /\ policy'[q].last \in BOOLEAN
                             /\ policy'[q].alone \in BOOLEAN
        BY <1>1, <1>2, <1>4 DEF V!VectorTypes
    <2>2. changes' \subseteq V!Refs
        BY <1>1 DEF V!VectorTypes
    <2> QED BY <1>1, <1>2, <2>1, <2>2 DEF V!VectorTypes
<1>8. V!AloneIsAlone'
    <2> SUFFICES ASSUME NEW a \in V!Procs, policy'[a].alone, NEW q \in V!Procs \ {a}
                 PROVE  \/ policy'[q].scope = None
                        \/ V!IdsOf(policy'[q].scope) \cap V!IdsOf(policy'[a].scope) = {}
        BY DEF V!AloneIsAlone
    <2>1. CASE a = p
        BY <1>2, <1>3, <1>4, <2>1
    <2>2. CASE a # p /\ q # p
        BY <1>1, <1>4, <2>2 DEF V!AloneIsAlone
    <2>3. CASE a # p /\ q = p
        <3>1. policy[a].alone /\ policy'[a].scope = policy[a].scope
            BY <1>4, <2>3
        <3>2. policy[a].scope # None
            <4>1. policy[a].pc # "idle"
                BY <1>1, <3>1 DEF V!SentSoFar
            <4>2. policy[a].scope \in V!Refs \cup {V!Everything}
                BY <1>1, <4>1 DEF V!SentSoFar
            <4> QED BY <4>2, Scopes
        <3>3. V!IdsOf(policy[a].scope) \cap V!IdsOf(s) = {}
            BY <1>4, <2>3, <3>2
        <3> QED BY <1>2, <2>3, <3>1, <3>3
    <2> QED BY <2>1, <2>2, <2>3
<1>9. ASSUME NEW q \in V!Procs PROVE V!SentSoFar(q)'
    <2>1. CASE q = p
        <3>1. p = Admin \/ pc = "delete"
            OBVIOUS
        <3> QED BY <1>2, <2>1, <3>1 DEF V!SentSoFar
    <2>2. CASE q # p
        <3>1. ASSUME q # Admin, policy'[q].alone, policy[q].pc \in {"page", "send"}, NEW i \in V!IdsOf(policy[q].scope)
              PROVE  policy[q].alone /\ trees'[i] = trees[i]
            <4>1. policy[q].scope \in V!Refs
                BY <1>1, <3>1 DEF V!SentSoFar
            <4>2. i \in Ids /\ policy[q].scope # None
                BY <3>1, <4>1, Scopes
            <4>3. policy[q].alone /\ V!IdsOf(policy[q].scope) \cap V!IdsOf(s) = {}
                BY <1>4, <2>2, <3>1, <4>2
            <4> QED BY <3>1, <4>2, <4>3
        <3>2. /\ policy'[q].pc = policy[q].pc /\ policy'[q].scope = policy[q].scope
              /\ policy'[q].after = policy[q].after /\ policy'[q].batch = policy[q].batch
              /\ policy'[q].last = policy[q].last /\ (policy'[q].alone => policy[q].alone)
            BY <1>4, <2>2
        <3>3. \A i : trees'[i] = trees[i] => V!Wanted(i)' = V!Wanted(i)
            BY DEF V!Wanted
        <3> QED BY <1>1, <3>1, <3>2, <3>3 DEF V!SentSoFar
    <2> QED BY <2>1, <2>2
<1>10. ASSUME NEW r \in changes'
       PROVE  /\ \A w \in Projectors : policy'[w].scope # r
              /\ \A i \in V!IdsOf(r) : vectors'[i] = V!Wanted(i)'
              /\ policy'[Admin].pc = "send" =>
                    \A i \in V!IdsOf(r) \cap DOMAIN policy'[Admin].batch : policy'[Admin].batch[i] = trees'[i]
    <2>1. r \in changes /\ r \in V!Refs /\ r # s
        BY <1>1, <1>7, Scopes DEF V!VectorTypes
    <2>2. \A i \in V!IdsOf(r) : i \in Ids /\ trees'[i] = trees[i]
        <3>1. CASE p = Admin
            BY <2>1, <3>1, Scopes
        <3>2. CASE p # Admin
            BY <2>1, <3>2, Scopes
        <3> QED BY <3>1, <3>2
    <2>3. \A i \in V!IdsOf(r) : V!Wanted(i)' = V!Wanted(i)
        BY <2>2 DEF V!Wanted
    <2>4. \A w \in Projectors : policy'[w].scope # r
        BY <1>1, <1>2, <1>4, <1>5, <2>1 DEF V!SettledIsHeld
    <2>5. policy'[Admin].pc = "send" => policy[Admin].pc = "send" /\ policy'[Admin].batch = policy[Admin].batch
        BY <1>2, <1>4, <1>5
    <2> QED BY <1>1, <2>1, <2>2, <2>3, <2>4, <2>5 DEF V!SettledIsHeld
<1>11. V!SettledIsHeld'
    BY <1>10 DEF V!SettledIsHeld
<1> QED BY <1>7, <1>8, <1>9, <1>11 DEF V!VectorInv

\* A process that ends without having sent everything.
LEMMA AbortKeepsInv ==
    ASSUME V!VectorInv, NEW p \in V!Procs, policy[p].pc # "idle",
           policy' = [policy EXCEPT ![p] = V!Idle], UNCHANGED <<trees, model, vectors, changes>>
    PROVE  V!VectorInv'
<1>1. vectors' \in [Ids -> Embedders \cup {None}]
    BY DEF V!VectorInv, V!VectorTypes
<1>2. \A r \in changes : \A i \in V!IdsOf(r) : vectors'[i] = V!Wanted(i)
    BY DEF V!VectorInv, V!SettledIsHeld
<1>3. V!Idle.pc # "send"
    BY DEF V!Idle
<1> QED BY <1>1, <1>2, <1>3, WorkKeepsInv

\* The deletion of a ref's vectors (App.projectVectors).
LEMMA DeleteKeepsInv ==
    ASSUME V!VectorInv, NEW w \in Projectors, V!DeleteRef(w) PROVE V!VectorInv'
<1>1. w \in V!Procs /\ w # Admin /\ policy[w].pc = "delete" /\ UNCHANGED <<trees, model>>
    BY VectorAssumption DEF V!Procs, V!DeleteRef
<1>2. CASE granted = None
    BY <1>1, <1>2, AbortKeepsInv DEF V!DeleteRef, V!Abort
<1>3. CASE granted # None
    <2> DEFINE next == [policy[w] EXCEPT !.pc = "page"]
    <2>1. /\ vectors' = [i \in Ids |-> IF RefOf[i] = policy[w].scope THEN None ELSE vectors[i]]
          /\ policy' = [policy EXCEPT ![w] = next] /\ changes' = changes
        BY <1>3 DEF V!DeleteRef
    <2>2. /\ V!VectorTypes /\ V!SentSoFar(w) /\ V!SettledIsHeld
        BY <1>1 DEF V!VectorInv
    <2>3. policy[w].scope \in V!Refs /\ policy[w].after = 0
        BY <1>1, <2>2 DEF V!SentSoFar
    <2>4. V!IdsOf(policy[w].scope) = {i \in Ids : RefOf[i] = policy[w].scope}
        BY <2>3, Scopes DEF V!IdsOf
    <2>5. /\ vectors' \in [Ids -> Embedders \cup {None}]
          /\ \A i \in Ids \ V!IdsOf(policy[w].scope) : vectors'[i] = vectors[i]
        BY <2>1, <2>2, <2>4 DEF V!VectorTypes
    <2>6. /\ DOMAIN next = DOMAIN V!Idle /\ next.pc = "page" /\ next.after = 0 /\ next.last \in BOOLEAN
          /\ next.scope = policy[w].scope /\ next.alone = policy[w].alone
        BY <1>1, <2>2, <2>3 DEF V!VectorTypes, V!Idle
    <2>7. policy'[w] = next
        BY <1>1, <2>1, <2>2 DEF V!VectorTypes
    <2> HIDE DEF next
    <2>8. V!SentSoFar(w)'
        <3>1. \A i \in V!IdsOf(policy[w].scope) : i > 0 /\ vectors'[i] = None
            <4>1. Ids \subseteq Nat \ {0}
                BY VectorAssumption
            <4>2. \A i \in Ids : i > 0
                BY <4>1
            <4> QED BY <2>1, <2>4, <4>2
        <3> QED BY <1>1, <2>3, <2>6, <2>7, <3>1 DEF V!SentSoFar
    <2>9. /\ DOMAIN next = DOMAIN V!Idle /\ next.pc \in {"delete", "page", "send"}
          /\ next.after \in Nat /\ next.last \in BOOLEAN
          /\ next.scope = policy[w].scope /\ next.alone = policy[w].alone
        BY <2>3, <2>6
    <2>10. policy[w].pc # "idle"
        BY <1>1
    <2> QED BY <1>1, <2>1, <2>5, <2>8, <2>9, <2>10, WorkKeepsInv
<1> QED BY <1>2, <1>3

\* What a page of rows is (streamVectors).
LEMMA PageRead ==
    ASSUME V!VectorInv, NEW p \in V!Procs, policy[p].pc = "page"
    PROVE  /\ V!NextPage(p) \subseteq {i \in V!IdsOf(policy[p].scope) : trees[i] # None /\ i > policy[p].after}
           /\ V!NextPage(p) \subseteq Ids
           /\ V!NextPage(p) # {} => V!Max(V!NextPage(p)) \in V!NextPage(p)
           /\ \A i \in V!NextPage(p) : i <= V!Max(V!NextPage(p))
           /\ \A i \in V!IdsOf(policy[p].scope) :
                 /\ trees[i] # None /\ i > policy[p].after /\ V!NextPage(p) # {} /\ i <= V!Max(V!NextPage(p))
                       => i \in V!NextPage(p)
                 /\ trees[i] # None /\ i > policy[p].after /\ Cardinality(V!NextPage(p)) < PageSize
                       => i \in V!NextPage(p)
           /\ V!NextPage(p) = {} => Cardinality(V!NextPage(p)) < PageSize
<1> DEFINE left == {i \in V!IdsOf(policy[p].scope) : trees[i] # None /\ i > policy[p].after}
           page == V!NextPage(p)
<1>1. left \in SUBSET Ids
    BY DEF V!IdsOf
<1>2. \A i : i \in page <=> i \in left /\ Rank(left, i) < PageSize
    BY SameCount DEF V!NextPage, Rank, Below
<1> HIDE DEF left, page
<1>3. /\ \A x \in left, y \in page : x <= y => x \in page
      /\ Cardinality(page) < PageSize => page = left
    BY <1>1, <1>2, PageIsFirst
<1>4. page \subseteq left
    BY <1>2
<1>5. page # {} => V!Max(page) \in page /\ \A y \in page : y <= V!Max(page)
    BY <1>1, <1>4, LastId
<1>6. page = {} => Cardinality(page) < PageSize
    BY FS_EmptySet, VectorAssumption
<1> QED BY <1>1, <1>3, <1>4, <1>5, <1>6 DEF left, page

\* What a process of its own ref leaves behind when there is nothing left to send.
LEMMA NothingLeft ==
    ASSUME V!VectorInv, NEW p \in V!Procs, p # Admin, policy[p].alone, policy[p].pc = "page",
           Cardinality(V!NextPage(p)) < PageSize, \A i \in V!NextPage(p) : trees[i] = "bad",
           NEW i \in V!IdsOf(policy[p].scope)
    PROVE  vectors[i] = V!Wanted(i)
<1>1. /\ i \in V!NextPage(p) => trees[i] = "bad"
      /\ trees[i] # None /\ i > policy[p].after => i \in V!NextPage(p)
    BY PageRead
<1>2. i > policy[p].after => trees[i] \in {None, "bad"}
    BY <1>1
<1>3. trees[i] \in {None, "bad"} => V!Wanted(i) = None
    BY VectorAssumption DEF V!Wanted
<1>4. V!SentSoFar(p)
    BY DEF V!VectorInv
<1>5. IF i > policy[p].after THEN vectors[i] = None ELSE vectors[i] = V!Wanted(i)
    BY <1>4 DEF V!SentSoFar
<1> QED BY <1>2, <1>3, <1>5

\* A page is read (streamVectors).
LEMMA ReadKeepsInv ==
    ASSUME V!VectorInv, NEW p \in V!Procs, V!ReadPage(p) PROVE V!VectorInv'
<1> DEFINE page == V!NextPage(p)
           batch == {i \in page : trees[i] # "bad"}
           last == Cardinality(page) < PageSize
           after == IF page = {} THEN policy[p].after ELSE V!Max(page)
           next == [policy[p] EXCEPT !.pc = IF batch = {} THEN "page" ELSE "send", !.after = after,
                                     !.batch = [i \in batch |-> trees[i]], !.last = last]
<1>1. /\ V!VectorTypes /\ V!SettledIsHeld /\ V!SentSoFar(p)
      /\ policy[p].pc = "page" /\ DOMAIN policy = V!Procs /\ policy[p].after \in Nat
    BY DEF V!VectorInv, V!VectorTypes, V!ReadPage
<1>2. /\ UNCHANGED <<trees, model, vectors>>
      /\ \/ /\ batch = {} /\ last /\ policy' = [policy EXCEPT ![p] = V!Idle]
            /\ changes' = IF p # Admin /\ head /\ policy[p].alone THEN changes \cup {policy[p].scope} ELSE changes
         \/ policy' = [policy EXCEPT ![p] = next] /\ changes' = changes
    BY SameCount DEF V!ReadPage, V!Last, V!Finish
<1>3. /\ page \subseteq V!IdsOf(policy[p].scope) /\ page \subseteq Ids
      /\ \A i \in page : trees[i] # None /\ i > policy[p].after
      /\ page # {} => V!Max(page) \in page
      /\ \A i \in page : i <= V!Max(page)
      /\ \A i \in V!IdsOf(policy[p].scope) :
            /\ trees[i] # None /\ i > policy[p].after /\ page # {} /\ i <= V!Max(page) => i \in page
            /\ trees[i] # None /\ i > policy[p].after /\ last => i \in page
    BY <1>1, PageRead
<1>4. /\ vectors' \in [Ids -> Embedders \cup {None}]
      /\ \A i \in Ids \ V!IdsOf(policy[p].scope) : vectors'[i] = vectors[i]
      /\ \A r \in changes : \A i \in V!IdsOf(r) : vectors'[i] = V!Wanted(i)
      /\ policy[p].pc # "idle"
    BY <1>1, <1>2 DEF V!VectorTypes, V!SettledIsHeld
<1>5. V!Idle.pc = "idle"
    BY DEF V!Idle
<1>6. CASE batch = {} /\ last /\ policy' = [policy EXCEPT ![p] = V!Idle]
           /\ changes' = IF p # Admin /\ head /\ policy[p].alone THEN changes \cup {policy[p].scope} ELSE changes
    <2>1. p # Admin /\ policy[p].alone => \A i \in V!IdsOf(policy[p].scope) : vectors'[i] = V!Wanted(i)
        <3>1. \A i \in page : trees[i] = "bad"
            BY <1>6
        <3> QED BY <1>1, <1>2, <1>6, <3>1, NothingLeft
    <2>2. \/ changes' = changes
          \/ /\ changes' = changes \cup {policy[p].scope} /\ p # Admin /\ policy[p].alone
             /\ \A i \in V!IdsOf(policy[p].scope) : vectors'[i] = V!Wanted(i)
        BY <1>6, <2>1
    <2> HIDE DEF page, batch, last, next
    <2> QED BY <1>2, <1>4, <1>5, <1>6, <2>2, WorkKeepsInv
<1>7. CASE policy' = [policy EXCEPT ![p] = next] /\ changes' = changes
    <2>1. DOMAIN policy[p] = {"pc", "scope", "after", "batch", "last", "alone"} /\ DOMAIN policy[p] = DOMAIN V!Idle
        BY <1>1 DEF V!VectorTypes, V!Idle
    <2>2. after \in Nat
        BY <1>1, <1>3, VectorAssumption
    <2>3. /\ DOMAIN next = DOMAIN V!Idle /\ next.after = after /\ next.last = last
          /\ next.pc = (IF batch = {} THEN "page" ELSE "send")
          /\ next.batch = [i \in batch |-> trees[i]]
          /\ next.scope = policy[p].scope /\ next.alone = policy[p].alone
        <3> HIDE DEF page, batch, last, after
        <3> QED BY <2>1
    <2>4. policy'[p] = next
        BY <1>1, <1>7
    <2> HIDE DEF next
    <2>5. last \in BOOLEAN /\ next.pc \in {"page", "send"}
        BY <2>3
    <2>6. \A i \in batch : trees[i] \in Embedders
        BY <1>1, <1>3 DEF V!VectorTypes
    <2>7. ASSUME p # Admin, policy[p].alone, NEW i \in V!IdsOf(policy[p].scope)
          PROVE  IF i > after
                 THEN vectors[i] = None /\ (next.pc = "send" /\ last => trees[i] = None)
                 ELSE i \in batch \/ vectors[i] = V!Wanted(i)
        <3>1. IF i > policy[p].after THEN vectors[i] = None ELSE vectors[i] = V!Wanted(i)
            BY <1>1, <2>7 DEF V!SentSoFar
        <3>2. i \in Nat
            <4>1. policy[p].scope \in V!Refs \cup {V!Everything}
                BY <1>1 DEF V!SentSoFar
            <4>2. i \in Ids
                BY <2>7, <4>1, Scopes
            <4> QED BY <4>2, VectorAssumption
        <3>3. page # {} => V!Max(page) \in Nat /\ V!Max(page) > policy[p].after
            BY <1>3, VectorAssumption
        <3>4. CASE i > after
            <4>1. i > policy[p].after
                BY <1>1, <3>2, <3>3, <3>4
            <4>2. i \notin page
                <5>1. i \in page => i <= V!Max(page) /\ page # {}
                    BY <1>3
                <5> HIDE DEF page
                <5> QED BY <3>2, <3>3, <3>4, <5>1
            <4>3. last => trees[i] = None
                BY <1>3, <4>1, <4>2
            <4> QED BY <3>1, <3>4, <4>1, <4>3
        <3>5. CASE ~(i > after)
            <4>1. CASE i > policy[p].after
                <5>1. page # {} /\ i <= V!Max(page)
                    <6> HIDE DEF page
                    <6> QED BY <1>1, <3>2, <3>3, <3>5, <4>1
                <5>2. trees[i] # None => i \in page
                    BY <1>3, <4>1, <5>1
                <5>3. i \in batch \/ trees[i] \in {None, "bad"}
                    BY <5>2
                <5>4. trees[i] \in {None, "bad"} => V!Wanted(i) = None
                    BY VectorAssumption DEF V!Wanted
                <5> QED BY <3>1, <3>5, <4>1, <5>3, <5>4
            <4>2. CASE ~(i > policy[p].after)
                BY <3>1, <3>5, <4>2
            <4> QED BY <4>1, <4>2
        <3> QED BY <3>4, <3>5
    <2>8. V!SentSoFar(p)'
        <3>1. /\ policy'[p].pc \in {"page", "send"} /\ policy'[p].after = after /\ policy'[p].last = last
              /\ policy'[p].batch = [i \in batch |-> trees[i]]
              /\ policy'[p].scope = policy[p].scope /\ policy'[p].alone = policy[p].alone
              /\ (policy'[p].pc = "send" <=> batch # {}) /\ policy'[p].pc = next.pc
            BY <2>3, <2>4
        <3>2. \A i : V!Wanted(i)' = V!Wanted(i)
            BY <1>2 DEF V!Wanted
        <3>3. policy[p].scope \in IF p = Admin THEN {V!Everything} ELSE V!Refs
            BY <1>1 DEF V!SentSoFar
        <3>4. batch \subseteq V!IdsOf(policy[p].scope)
            BY <1>3
        <3>7. \A i \in batch : i <= after
            BY <1>3
        <3> HIDE DEF batch, last, after, page
        <3>5. policy'[p].pc = "send" =>
                 /\ DOMAIN policy'[p].batch \subseteq V!IdsOf(policy'[p].scope)
                 /\ \A i \in DOMAIN policy'[p].batch : policy'[p].batch[i] \in Embedders /\ i <= policy'[p].after
            BY <2>6, <3>1, <3>4, <3>7
        <3>6. ASSUME p # Admin, policy'[p].alone, NEW i \in V!IdsOf(policy'[p].scope)
              PROVE  IF i > policy'[p].after
                     THEN vectors'[i] = None /\ (policy'[p].pc = "send" /\ policy'[p].last => trees'[i] = None)
                     ELSE IF policy'[p].pc = "send" /\ i \in DOMAIN policy'[p].batch
                     THEN policy'[p].batch[i] = trees'[i]
                     ELSE vectors'[i] = V!Wanted(i)'
            <4>1. p # Admin /\ policy[p].alone /\ i \in V!IdsOf(policy[p].scope)
                BY <3>1, <3>6
            <4>2. /\ vectors'[i] = vectors[i] /\ trees'[i] = trees[i]
                  /\ DOMAIN policy'[p].batch = batch
                  /\ i \in batch => policy'[p].batch[i] = trees[i]
                BY <1>2, <3>1
            <4>3. i \in batch => policy'[p].pc = "send"
                BY <3>1
            <4> QED BY <2>7, <3>1, <3>2, <4>1, <4>2, <4>3
        <3> QED BY <3>1, <3>3, <3>5, <3>6 DEF V!SentSoFar
    <2>9. p = Admin => \A r \in changes : \A i \in V!IdsOf(r) :
                           /\ vectors'[i] = V!Wanted(i)
                           /\ next.pc = "send" /\ i \in DOMAIN next.batch => next.batch[i] = trees[i]
        <3> HIDE DEF batch, last, after, page
        <3> QED BY <1>4, <2>3
    <2>10. /\ DOMAIN next = DOMAIN V!Idle /\ next.pc \in {"delete", "page", "send"}
           /\ next.after \in Nat /\ next.last \in BOOLEAN
           /\ next.scope = policy[p].scope /\ next.alone = policy[p].alone
        <3> HIDE DEF batch, last, after, page
        <3> QED BY <2>2, <2>3, <2>5
    <2> HIDE DEF batch, last, after, page
    <2> QED BY <1>2, <1>4, <1>7, <2>8, <2>9, <2>10, WorkKeepsInv
<1> QED BY <1>2, <1>6, <1>7

\* A batch is sent, or refused (projectVectors).
LEMMA UpsertKeepsInv ==
    ASSUME V!VectorInv, NEW p \in V!Procs, V!Upsert(p) PROVE V!VectorInv'
<1> DEFINE batch == policy[p].batch
           next == IF policy[p].last THEN V!Idle ELSE [policy[p] EXCEPT !.pc = "page"]
<1>1. /\ V!VectorTypes /\ V!SettledIsHeld /\ V!SentSoFar(p)
      /\ policy[p].pc = "send" /\ DOMAIN policy = V!Procs /\ UNCHANGED <<trees, model>>
    BY DEF V!VectorInv, V!VectorTypes, V!Upsert
<1>2. CASE policy' = [policy EXCEPT ![p] = V!Idle] /\ UNCHANGED <<vectors, changes>>
    BY <1>1, <1>2, AbortKeepsInv
<1>3. CASE /\ vectors' = V!Upserted(batch)
           /\ IF policy[p].last
              THEN /\ policy' = [policy EXCEPT ![p] = V!Idle]
                   /\ changes' = IF p # Admin /\ head /\ policy[p].alone THEN changes \cup {policy[p].scope}
                                 ELSE changes
              ELSE policy' = [policy EXCEPT ![p].pc = "page"] /\ changes' = changes
    <2>1. /\ DOMAIN batch \subseteq V!IdsOf(policy[p].scope)
          /\ \A i \in DOMAIN batch : batch[i] \in Embedders /\ i <= policy[p].after
          /\ policy[p].scope \in IF p = Admin THEN {V!Everything} ELSE V!Refs
        BY <1>1 DEF V!SentSoFar
    <2>2. V!IdsOf(policy[p].scope) \subseteq Ids
        BY <2>1, Scopes
    <2>3. \A i \in Ids : vectors'[i] = IF i \in DOMAIN batch THEN batch[i] ELSE vectors[i]
        BY <1>3 DEF V!Upserted
    <2>4. /\ vectors' \in [Ids -> Embedders \cup {None}]
          /\ \A i \in Ids \ V!IdsOf(policy[p].scope) : vectors'[i] = vectors[i]
        <3>1. vectors \in [Ids -> Embedders \cup {None}]
            BY <1>1 DEF V!VectorTypes
        <3> QED BY <1>3, <2>1, <2>3, <3>1 DEF V!Upserted
    <2>5. \A i \in DOMAIN batch : batch[i] = trees[i] => vectors'[i] = V!Wanted(i)
        BY <2>1, <2>2, <2>3 DEF V!Wanted
    <2>6. ASSUME p # Admin, policy[p].alone, NEW i \in V!IdsOf(policy[p].scope)
          PROVE  IF i > policy[p].after
                 THEN vectors'[i] = None /\ (policy[p].last => vectors'[i] = V!Wanted(i))
                 ELSE vectors'[i] = V!Wanted(i)
        <3>1. IF i > policy[p].after
              THEN vectors[i] = None /\ (policy[p].last => trees[i] = None)
              ELSE IF i \in DOMAIN batch THEN batch[i] = trees[i] ELSE vectors[i] = V!Wanted(i)
            BY <1>1, <2>6 DEF V!SentSoFar
        <3>2. i \in Ids /\ i \in Nat /\ policy[p].after \in Nat
            BY <1>1, <2>2, <2>6, VectorAssumption DEF V!VectorTypes
        <3>3. CASE i > policy[p].after
            <4>1. i \notin DOMAIN batch
                <5>1. i \in DOMAIN batch => i <= policy[p].after
                    BY <2>1
                <5> HIDE DEF batch
                <5> QED BY <3>2, <3>3, <5>1
            <4>2. vectors'[i] = None
                BY <2>3, <3>1, <3>2, <3>3, <4>1
            <4>3. trees[i] = None => V!Wanted(i) = None
                BY VectorAssumption DEF V!Wanted
            <4> QED BY <3>1, <3>3, <4>2, <4>3
        <3>4. CASE ~(i > policy[p].after)
            BY <2>3, <2>5, <3>1, <3>2, <3>4
        <3> QED BY <3>3, <3>4
    <2>7. DOMAIN policy[p] = {"pc", "scope", "after", "batch", "last", "alone"} /\ DOMAIN policy[p] = DOMAIN V!Idle
          /\ policy[p].last \in BOOLEAN /\ policy[p].after \in Nat
        BY <1>1 DEF V!VectorTypes, V!Idle
    <2>8. policy' = [policy EXCEPT ![p] = next] /\ policy'[p] = next
        BY <1>1, <1>3
    <2>9. \/ next = V!Idle
          \/ /\ DOMAIN next = DOMAIN V!Idle /\ next.pc \in {"delete", "page", "send"}
             /\ next.after \in Nat /\ next.last \in BOOLEAN
             /\ next.scope = policy[p].scope /\ next.alone = policy[p].alone
        BY <2>7
    <2>10. next # V!Idle => V!SentSoFar(p)'
        <3> SUFFICES ASSUME next # V!Idle PROVE V!SentSoFar(p)'
            OBVIOUS
        <3>1. /\ policy'[p].pc = "page" /\ policy'[p].after = policy[p].after
              /\ policy'[p].scope = policy[p].scope /\ policy'[p].alone = policy[p].alone
            BY <2>7, <2>8
        <3>2. \A i : V!Wanted(i)' = V!Wanted(i)
            BY <1>1 DEF V!Wanted
        <3> HIDE DEF next, batch
        <3> QED BY <2>1, <2>6, <3>1, <3>2 DEF V!SentSoFar
    <2>11. next.pc \in {"idle", "page"}
        BY <2>7 DEF V!Idle
    <2>12. p = Admin => \A r \in changes : \A i \in V!IdsOf(r) :
                           /\ vectors'[i] = V!Wanted(i)
                           /\ next.pc = "send" /\ i \in DOMAIN next.batch => next.batch[i] = trees[i]
        <3> SUFFICES ASSUME p = Admin, NEW r \in changes, NEW i \in V!IdsOf(r) PROVE vectors'[i] = V!Wanted(i)
            BY <2>11
        <3>1. i \in Ids
            BY <1>1, Scopes DEF V!VectorTypes
        <3>2. vectors[i] = V!Wanted(i) /\ (i \in DOMAIN batch => batch[i] = trees[i])
            BY <1>1 DEF V!SettledIsHeld
        <3> QED BY <2>3, <2>5, <3>1, <3>2
    <2>13. \/ changes' = changes
           \/ /\ changes' = changes \cup {policy[p].scope} /\ p # Admin /\ policy[p].alone /\ next = V!Idle
              /\ \A i \in V!IdsOf(policy[p].scope) : vectors'[i] = V!Wanted(i)
        <3>1. CASE policy[p].last
            <4>1. p # Admin /\ policy[p].alone => \A i \in V!IdsOf(policy[p].scope) : vectors'[i] = V!Wanted(i)
                BY <2>6, <3>1
            <4> QED BY <1>3, <3>1, <4>1
        <3>2. CASE ~policy[p].last
            BY <1>3, <3>2
        <3> QED BY <3>1, <3>2
    <2>14. policy[p].pc # "idle"
        BY <1>1
    <2> HIDE DEF next, batch
    <2> QED BY <1>1, <2>4, <2>8, <2>9, <2>10, <2>12, <2>13, <2>14, WorkKeepsInv
<1>4. \/ policy' = [policy EXCEPT ![p] = V!Idle] /\ UNCHANGED <<vectors, changes>>
      \/ /\ vectors' = V!Upserted(batch)
         /\ IF policy[p].last
            THEN /\ policy' = [policy EXCEPT ![p] = V!Idle]
                 /\ changes' = IF p # Admin /\ head /\ policy[p].alone THEN changes \cup {policy[p].scope}
                               ELSE changes
            ELSE policy' = [policy EXCEPT ![p].pc = "page"] /\ changes' = changes
    BY DEF V!Upsert, V!Abort, V!Finish
<1> QED BY <1>2, <1>3, <1>4

\* Every step of the projections keeps the invariant.
LEMMA VectorStep == V!VectorInv /\ [V!Next]_(V!vars) => V!VectorInv'
<1> SUFFICES ASSUME V!VectorInv, [V!Next]_(V!vars) PROVE V!VectorInv'
    OBVIOUS
<1>1. /\ V!VectorTypes /\ V!SettledIsHeld
      /\ \A w \in Projectors : w \in V!Procs /\ w # Admin
      /\ Admin \in V!Procs
    BY VectorAssumption DEF V!VectorInv, V!Procs
<1>2. ASSUME UNCHANGED <<trees, vectors, policy, changes>>, model' \in Embedders PROVE V!VectorInv'
    <2>1. V!VectorTypes'
        BY <1>1, <1>2 DEF V!VectorTypes
    <2>2. \A i : V!Wanted(i)' = V!Wanted(i)
        BY <1>2 DEF V!Wanted
    <2>3. V!AloneIsAlone' /\ \A p \in V!Procs : V!SentSoFar(p)'
        BY <1>2, <2>2 DEF V!VectorInv, V!AloneIsAlone, V!SentSoFar
    <2>4. V!SettledIsHeld'
        BY <1>1, <1>2, <2>2 DEF V!SettledIsHeld
    <2> QED BY <2>1, <2>3, <2>4 DEF V!VectorInv
<1>3. ASSUME NEW d, V!SaveSetting(d) PROVE V!VectorInv'
    BY <1>1, <1>2, <1>3 DEF V!SaveSetting, V!VectorTypes
<1>4. ASSUME NEW m \in Embedders, V!ChangeModel(m) PROVE V!VectorInv'
    BY <1>2, <1>4 DEF V!ChangeModel
<1>5. ASSUME NEW w \in Projectors, NEW r \in V!Refs, NEW kept, NEW bad, V!Publish(w, r, kept, bad)
      PROVE  V!VectorInv'
    <2>1. trees' \in [Ids -> Embedders \cup {None, "bad"}] /\ model' = model /\ vectors' = vectors
        BY <1>1, <1>5 DEF V!Publish, V!VectorTypes
    <2>2. \A i \in Ids \ V!IdsOf(r) : trees'[i] = trees[i]
        BY <1>5, Scopes DEF V!Publish, V!IdsOf
    <2>3. V!Start(w, r, "delete") /\ policy[w].pc = "idle" /\ changes' = changes \ {r}
        BY <1>5 DEF V!Publish
    <2> QED BY <1>1, <2>1, <2>2, <2>3, StartKeepsInv
<1>6. ASSUME NEW w \in Projectors, NEW r \in V!Refs, V!Retry(w, r) PROVE V!VectorInv'
    <2>1. trees' \in [Ids -> Embedders \cup {None, "bad"}] /\ model' = model /\ vectors' = vectors /\ trees' = trees
        BY <1>1, <1>6 DEF V!Retry, V!VectorTypes
    <2>2. V!Start(w, r, "delete") /\ policy[w].pc = "idle" /\ changes' = changes \ {r}
        BY <1>6 DEF V!Retry
    <2> QED BY <1>1, <2>1, <2>2, StartKeepsInv
<1>7. ASSUME NEW w \in Projectors, V!NotConfigured(w) PROVE V!VectorInv'
    BY <1>1, <1>7, AbortKeepsInv DEF V!NotConfigured, V!Finish
<1>8. ASSUME NEW p \in V!Procs, V!Fails(p) PROVE V!VectorInv'
    BY <1>8, AbortKeepsInv DEF V!Fails, V!Abort
<1>9. ASSUME V!Rebuild PROVE V!VectorInv'
    <2>1. trees' \in [Ids -> Embedders \cup {None, "bad"}] /\ model' = model /\ vectors' = vectors
          /\ trees' = trees /\ changes' = changes
        BY <1>1, <1>9 DEF V!Rebuild, V!VectorTypes
    <2>2. V!Start(Admin, V!Everything, "page") /\ policy[Admin].pc = "idle"
        BY <1>9 DEF V!Rebuild
    <2> QED BY <1>1, <2>1, <2>2, StartKeepsInv
<1>10. CASE V!Next
    BY <1>1, <1>3, <1>4, <1>5, <1>6, <1>7, <1>8, <1>9, <1>10, DeleteKeepsInv, ReadKeepsInv, UpsertKeepsInv
       DEF V!Next
<1>11. CASE UNCHANGED V!vars
    BY <1>1, <1>2, <1>11 DEF V!vars, V!VectorTypes
<1> QED BY <1>10, <1>11

-----------------------------------------------------------------------------
(* SourceConnectors: the calls of a connector.                             *)

LEMMA CountsAlike == \A set : K!Cardinality(set) = Cardinality(set)
BY DEF K!Cardinality, Cardinality

\* The raw hits of a search are a sequence.
LEMMA RawHits == \A raw \in K!BoundedSeq(K!Hits, MaxRaw) : raw \in Seq(K!Hits)
BY ConnectorAssumption DEF K!BoundedSeq, K!SeqOf

\* Everyone in a list has a place in it, and no page comes before the first.
LEMMA PlaceInList ==
    ASSUME NEW list \in SUBSET (Users \cup Groups), NEW x \in list
    PROVE  /\ K!Place(x, list) \in Nat /\ Cardinality(list) \in Nat
           /\ K!Place(x, list) < Cardinality(list)
<1> DEFINE before == {y \in list : y < x}
<1>1. IsFiniteSet(list) /\ list \subseteq Nat
    BY FS_Union, FS_Subset, ConnectorAssumption
<1>2. before \subseteq list /\ x \notin before
    BY <1>1
<1>3. K!Place(x, list) = Cardinality(before)
    BY CountsAlike DEF K!Place
<1>4. IsFiniteSet(before) /\ before # list
    BY <1>1, <1>2, FS_Subset
<1> HIDE DEF before
<1>5. Cardinality(before) \in Nat /\ Cardinality(list) \in Nat
    BY <1>1, <1>4, FS_CardinalityType
<1>6. Cardinality(before) <= Cardinality(list) /\ Cardinality(before) # Cardinality(list)
    BY <1>1, <1>2, <1>4, FS_Subset
<1> QED BY <1>3, <1>5, <1>6

\* The last page completes the list.
LEMMA PageCompletes ==
    ASSUME NEW list \in SUBSET (Users \cup Groups), K!IsLast(list), policy.page \in Nat
    PROVE  list \subseteq K!PagesBefore(list) \cup K!PageOf(list)
<1> SUFFICES ASSUME NEW x \in list PROVE K!Place(x, list) < policy.page * PageLength
    BY DEF K!PageOf, K!PagesBefore
<1>1. policy.page * PageLength \in Nat /\ policy.page * PageLength >= Cardinality(list)
    BY CountsAlike, ConnectorAssumption DEF K!IsLast
<1>2. K!Place(x, list) \in Nat /\ Cardinality(list) \in Nat /\ K!Place(x, list) < Cardinality(list)
    BY PlaceInList
<1> DEFINE end == policy.page * PageLength
<1> HIDE DEF end
<1> QED BY <1>1, <1>2 DEF end

\* What an answer grants is granted by its parts, each of them a reader the source names.
LEMMA GrantsOfPages ==
    ASSUME K!ConnectorTypes
    PROVE  /\ \A e, s, t : s \subseteq t => K!Grants(e, s) \subseteq K!Grants(e, t)
           /\ \A e, s, t, u : s \subseteq t \cup u => K!Grants(e, s) \subseteq K!Grants(e, t) \cup K!Grants(e, u)
           /\ \A e : K!Grants(e, {}) = {}
           /\ \A e : K!Listing(e) \subseteq Users \cup Groups
           /\ \A e : (head = "gitlab" => e \in {"members", "project"})
                    => K!Grants(e, K!Listing(e)) \subseteq K!Named(trees)
<1>1. /\ \A e, s, t : s \subseteq t => K!Grants(e, s) \subseteq K!Grants(e, t)
      /\ \A e, s, t, u : s \subseteq t \cup u => K!Grants(e, s) \subseteq K!Grants(e, t) \cup K!Grants(e, u)
      /\ \A e : K!Grants(e, {}) = {}
    BY DEF K!Grants, K!BitbucketGrants, K!GitLabGrants
<1>2. /\ trees.repo \subseteq Users \cup Groups /\ trees.project \subseteq Users \cup Groups
      /\ trees.admin \subseteq Users \cup Groups /\ trees.active \subseteq Users
      /\ head = "bitbucket" \/ head = "gitlab"
    BY DEF K!ConnectorTypes, K!Grantees
<1>3. \A e : K!Listing(e) \subseteq Users \cup Groups
    BY <1>2 DEF K!Listing
<1>4. \A e : (head = "gitlab" => e \in {"members", "project"}) => K!Grants(e, K!Listing(e)) \subseteq K!Named(trees)
    <2> SUFFICES ASSUME NEW e, head = "gitlab" => e \in {"members", "project"}, NEW x \in K!Grants(e, K!Listing(e)) PROVE x \in K!Named(trees)
        OBVIOUS
    <2>1. CASE head = "bitbucket"
        <3>1. x \in K!Listing(e) /\ x \in trees.active \cup Groups
              /\ (e \in {"admin users", "admin groups"} => x \in trees.admin)
            BY <2>1 DEF K!Grants, K!BitbucketGrants
        <3>2. x \in trees.repo \cup trees.project \cup trees.admin
            BY <3>1 DEF K!Listing
        <3> QED BY <2>1, <3>1, <3>2 DEF K!Named
    <2>2. CASE head = "gitlab"
        <3>1. x \in K!Listing(e) /\ x \in trees.active
            BY <2>2 DEF K!Grants, K!GitLabGrants
        <3> QED BY <2>2, <3>1 DEF K!Named, K!Listing
    <2> QED BY <1>2, <2>1, <2>2
<1> QED BY <1>1, <1>3, <1>4

\* The requests of a read of the permissions.
LEMMA EndpointNames ==
    ASSUME policy.op = "permissions"
    PROVE  /\ head = "bitbucket" =>
                 /\ Len(K!Endpoints) = 7
                 /\ K!Endpoints[1] = "repo users" /\ K!Endpoints[2] = "repo groups"
                 /\ K!Endpoints[3] = "project users" /\ K!Endpoints[4] = "project groups"
                 /\ K!Endpoints[5] = "admin users" /\ K!Endpoints[6] = "admin groups"
                 /\ K!Endpoints[7] = "all"
           /\ head = "gitlab" => Len(K!Endpoints) = 2 /\ K!Endpoints[1] = "members" /\ K!Endpoints[2] = "project"
BY DEF K!Endpoints, K!BitbucketPermissions, K!GitLabPermissions

\* No page comes before the first.
LEMMA FirstPage == K!ConnectorTypes /\ policy.page = 1 => K!ShownBefore = {}
<1> SUFFICES ASSUME K!ConnectorTypes, policy.page = 1 PROVE K!ShownBefore = {}
    OBVIOUS
<1> DEFINE list == K!Listing(K!Endpoint)
<1>1. list \in SUBSET (Users \cup Groups)
    BY GrantsOfPages
<1> HIDE DEF list
<1>2. ASSUME NEW x \in list, K!Place(x, list) < (policy.page - 1) * PageLength PROVE FALSE
    <2>1. (policy.page - 1) * PageLength = 0
        BY ConnectorAssumption
    <2>2. K!Place(x, list) \in Nat
        BY <1>1, PlaceInList
    <2> QED BY <1>2, <2>1, <2>2
<1>3. K!PagesBefore(list) = {}
    BY <1>2 DEF K!PagesBefore
<1> QED BY <1>3, GrantsOfPages DEF K!ShownBefore, list

LEMMA ConnectorInit == K!Init => K!ConnectorInv
<1> SUFFICES ASSUME K!Init PROVE K!ConnectorInv
    OBVIOUS
<1>1. /\ policy = K!Idle /\ K!Idle.pc = "idle" /\ K!Idle.op = "none" /\ K!Idle.page = 1 /\ K!Idle.raw = <<>>
      /\ K!Idle.hits = <<>>
    BY DEF K!Init, K!Idle
<1>2. K!ConnectorTypes
    <2>1. head \in {"bitbucket", "gitlab"} /\ ref.changed \in BOOLEAN
        BY DEF K!Init, K!Nothing
    <2>2. granted \in [Projects -> K!PathNames]
        BY DEF K!Init, K!PathNames
    <2>3. /\ trees \in [repo : SUBSET K!Grantees, project : SUBSET K!Grantees, admin : SUBSET K!Grantees,
                        active : SUBSET Users, all : BOOLEAN, access : {"enabled", "private", "disabled"},
                        paths : [Projects -> K!PathNames]]
          /\ trees.repo \subseteq Users
        BY ConnectorAssumption DEF K!Init, K!Grantees, K!PathNames
    <2> QED BY <1>1, <2>1, <2>2, <2>3 DEF K!ConnectorTypes
<1>3. K!GrantedSoFar /\ K!HandledSoFar /\ K!GrantedWasGranted /\ K!WholeOrError
    BY <1>1 DEF K!GrantedSoFar, K!HandledSoFar, K!GrantedWasGranted, K!WholeOrError, K!PermissionsAreWhole,
                K!ShortAnswerIsComplete, K!Answered
<1> QED BY <1>2, <1>3 DEF K!ConnectorInv

\* A change at the source.
LEMMA ChangedTypes ==
    ASSUME K!ConnectorTypes, NEW next \in K!Changes
    PROVE  /\ next \in [repo : SUBSET K!Grantees, project : SUBSET K!Grantees, admin : SUBSET K!Grantees,
                        active : SUBSET Users, all : BOOLEAN, access : {"enabled", "private", "disabled"},
                        paths : [Projects -> K!PathNames]]
           /\ head = "gitlab" => next.repo \subseteq Users
<1> DEFINE T == [repo : SUBSET K!Grantees, project : SUBSET K!Grantees, admin : SUBSET K!Grantees,
                 active : SUBSET Users, all : BOOLEAN, access : {"enabled", "private", "disabled"},
                 paths : [Projects -> K!PathNames]]
<1>1. /\ trees \in T /\ (head = "gitlab" => trees.repo \subseteq Users) /\ head \in {"bitbucket", "gitlab"}
      /\ Users \subseteq K!Grantees
    BY DEF K!ConnectorTypes, K!Grantees
<1>2. \A set, whole, x : set \subseteq whole /\ x \in whole => K!Toggle(set, x) \subseteq whole
    BY DEF K!Toggle
<1>3. ASSUME NEW x \in Users, next = [trees EXCEPT !.active = K!Toggle(@, x)]
      PROVE  next \in T /\ next.repo = trees.repo
    BY <1>1, <1>2, <1>3
<1>4. ASSUME next = [trees EXCEPT !.all = ~@] PROVE next \in T /\ next.repo = trees.repo
    BY <1>1, <1>4
<1>5. ASSUME NEW x \in K!Grantees, NEW f \in {"repo", "project", "admin"}, head = "bitbucket",
             next = [trees EXCEPT ![f] = K!Toggle(@, x)]
      PROVE  next \in T
    <2>1. CASE f = "repo"
        BY <1>1, <1>2, <1>5, <2>1
    <2>2. CASE f = "project"
        BY <1>1, <1>2, <1>5, <2>2
    <2>3. CASE f = "admin"
        BY <1>1, <1>2, <1>5, <2>3
    <2> QED BY <1>5, <2>1, <2>2, <2>3
<1>6. ASSUME NEW x \in Users, head = "gitlab", next = [trees EXCEPT !.repo = K!Toggle(@, x)]
      PROVE  next \in T /\ next.repo \subseteq Users
    <2>1. K!Toggle(trees.repo, x) \subseteq Users /\ K!Toggle(trees.repo, x) \subseteq K!Grantees
        BY <1>1, <1>2, <1>6
    <2> QED BY <1>1, <1>6, <2>1
<1>7. ASSUME NEW a \in {"enabled", "private", "disabled"}, next = [trees EXCEPT !.access = a]
      PROVE  next \in T /\ next.repo = trees.repo
    BY <1>1, <1>7
<1>8. ASSUME NEW x \in Projects, NEW y \in {Gone} \cup ProjectPaths, next = [trees EXCEPT !.paths[x] = y]
      PROVE  next \in T /\ next.repo = trees.repo
    BY <1>1, <1>8 DEF K!PathNames
<1>9. \/ \E x \in Users : next = [trees EXCEPT !.active = K!Toggle(@, x)]
      \/ next = [trees EXCEPT !.all = ~@]
      \/ /\ head = "bitbucket"
         /\ \E f \in {"repo", "project", "admin"}, x \in K!Grantees : next = [trees EXCEPT ![f] = K!Toggle(@, x)]
      \/ /\ head = "gitlab"
         /\ \/ \E x \in Users : next = [trees EXCEPT !.repo = K!Toggle(@, x)]
            \/ \E a \in {"enabled", "private", "disabled"} : next = [trees EXCEPT !.access = a]
            \/ \E x \in Projects, y \in {Gone} \cup ProjectPaths : next = [trees EXCEPT !.paths[x] = y]
    BY <1>1 DEF K!Changes
<1> HIDE DEF T
<1> DEFINE Good == next \in T /\ (head = "gitlab" => next.repo \subseteq Users)
<1>10. next \in T /\ next.repo = trees.repo => Good
    BY <1>1
<1>11. next \in T /\ head = "bitbucket" => Good
    BY <1>1
<1>12. next \in T /\ next.repo \subseteq Users => Good
    OBVIOUS
<1>13. next = [trees EXCEPT !.all = ~@] => Good
    BY <1>4, <1>10
<1>14. Good
    <2> HIDE DEF Good
    <2> QED BY <1>3, <1>5, <1>6, <1>7, <1>8, <1>9, <1>10, <1>11, <1>12, <1>13
<1> QED BY <1>14 DEF T

LEMMA ServerKeepsInv ==
    ASSUME K!ConnectorInv, K!ServerChanges PROVE K!ConnectorInv'
<1>1. /\ K!ConnectorTypes /\ K!GrantedSoFar /\ K!HandledSoFar /\ K!GrantedWasGranted /\ K!WholeOrError
    BY DEF K!ConnectorInv
<1>2. UNCHANGED <<head, granted, policy, model>> /\ trees' \in K!Changes
    BY DEF K!ServerChanges
<1>3. K!ConnectorTypes'
    <2>1. ref'.changed \in BOOLEAN
        BY DEF K!ServerChanges, K!Nothing
    <2> QED BY <1>1, <1>2, <2>1, ChangedTypes DEF K!ConnectorTypes
<1>4. policy.pc # "idle" => ref'.changed /\ ref'.could = ref.could \cup K!Named(trees)'
    <2>1. policy.pc # "idle" => policy # K!Idle
        BY DEF K!Idle
    <2>2. K!Named(trees') = K!Named(trees)'
        BY <1>2 DEF K!Named
    <2> QED BY <2>1, <2>2 DEF K!ServerChanges
<1>5. K!GrantedSoFar'
    <2>1. K!Endpoints' = K!Endpoints
        BY <1>2 DEF K!Endpoints
    <2> QED BY <1>1, <1>2, <1>4, <2>1 DEF K!GrantedSoFar
<1>6. (\A i : K!Handled(i)' <=> K!Handled(i)) /\ \A op : K!Answered(op)' <=> K!Answered(op)
    BY <1>2 DEF K!Handled, K!Answered
<1>7. K!HandledSoFar'
    BY <1>1, <1>2, <1>6 DEF K!HandledSoFar
<1>8. K!GrantedWasGranted'
    <2> SUFFICES ASSUME K!Answered("permissions") PROVE policy'.got \subseteq ref'.could /\ ref'.changed
        BY <1>6 DEF K!GrantedWasGranted
    <2>1. policy.op = "permissions" /\ policy.pc = "done"
        BY DEF K!Answered
    <2> QED BY <1>1, <1>2, <1>4, <2>1 DEF K!GrantedSoFar
<1>9. K!WholeOrError'
    <2>1. K!Answered("permissions") => ref'.changed
        BY <1>4 DEF K!Answered
    <2> QED BY <1>1, <1>2, <1>6, <2>1 DEF K!WholeOrError, K!PermissionsAreWhole, K!ShortAnswerIsComplete
<1> QED BY <1>3, <1>5, <1>7, <1>8, <1>9 DEF K!ConnectorInv

\* What the server shows is the same while it does not change.
LEMMA SameServer ==
    ASSUME UNCHANGED <<head, trees>>
    PROVE  /\ \A e : K!Listing(e)' = K!Listing(e)
           /\ \A e, s : K!Grants(e, s)' = K!Grants(e, s)
           /\ K!Named(trees)' = K!Named(trees)
           /\ policy'.op = policy.op => K!Endpoints' = K!Endpoints
           /\ policy'.op = policy.op => \A i : K!ShownAt(i)' = K!ShownAt(i)
<1>1. \A e : K!Listing(e)' = K!Listing(e)
    BY Zenon DEF K!Listing
<1>2. \A e, s : K!Grants(e, s)' = K!Grants(e, s)
    BY DEF K!Grants, K!BitbucketGrants, K!GitLabGrants
<1>3. K!Named(trees)' = K!Named(trees)
    BY DEF K!Named
<1>4. policy'.op = policy.op => K!Endpoints' = K!Endpoints
    BY DEF K!Endpoints
<1>5. policy'.op = policy.op => \A i : K!ShownAt(i)' = K!ShownAt(i)
    BY <1>4 DEF K!ShownAt, K!Listing, K!Grants, K!BitbucketGrants, K!GitLabGrants
<1> QED BY <1>1, <1>2, <1>3, <1>4, <1>5

\* A call that goes on or ends, in one of the two kinds of calls.
LEMMA CallKeepsTypes ==
    ASSUME K!ConnectorTypes, UNCHANGED <<head, trees>>, granted' \in [Projects -> K!PathNames],
           DOMAIN policy' = DOMAIN K!Idle, policy'.pc \in {"ask", "lookup", "done"},
           policy'.op \in {"permissions", "query", "global"},
           policy'.pc = "lookup" => policy'.op # "permissions", policy'.page \in Nat \ {0},
           policy'.raw \in Seq(K!Hits), policy'.hits \in Seq([hit : K!Hits, path : K!PathNames]),
           ref'.changed \in BOOLEAN
    PROVE  K!ConnectorTypes'
BY DEF K!ConnectorTypes

LEMMA PermissionsKeepInv ==
    ASSUME K!ConnectorTypes', policy'.op = "permissions", K!GrantedSoFar', K!GrantedWasGranted',
           K!PermissionsAreWhole'
    PROVE  K!ConnectorInv'
BY DEF K!ConnectorInv, K!HandledSoFar, K!WholeOrError, K!ShortAnswerIsComplete, K!Answered

LEMMA SearchKeepsInv ==
    ASSUME K!ConnectorTypes', policy'.op # "permissions", K!HandledSoFar', K!ShortAnswerIsComplete'
    PROVE  K!ConnectorInv'
BY DEF K!ConnectorInv, K!GrantedSoFar, K!GrantedWasGranted, K!WholeOrError, K!PermissionsAreWhole, K!Answered

\* The fields of a call.
LEMMA CallFields ==
    ASSUME K!ConnectorTypes
    PROVE  /\ DOMAIN policy = DOMAIN K!Idle
           /\ DOMAIN K!Idle = {"op", "pc", "at", "page", "attempt", "raw", "ref", "got", "hits", "result", "skipped"}
           /\ granted \in [Projects -> K!PathNames] /\ ref.changed \in BOOLEAN
           /\ policy.page \in Nat \ {0} /\ policy.raw \in Seq(K!Hits)
           /\ policy.hits \in Seq([hit : K!Hits, path : K!PathNames])
           /\ policy.pc # "idle" => policy.op \in {"permissions", "query", "global"}
           /\ policy.pc = "lookup" => policy.op # "permissions"
           /\ head \in {"bitbucket", "gitlab"}
BY DEF K!ConnectorTypes, K!Idle

LEMMA FailedKeepsInv ==
    ASSUME K!ConnectorInv, policy.pc \in {"ask", "lookup"}, policy' = K!Failed,
           UNCHANGED <<head, trees, ref>>, granted' \in [Projects -> K!PathNames]
    PROVE  K!ConnectorInv'
<1>1. K!ConnectorTypes /\ K!GrantedSoFar
    BY DEF K!ConnectorInv
<1>2. /\ policy'.pc = "done" /\ policy'.result = "error" /\ policy'.op = policy.op /\ policy'.got = policy.got
      /\ policy'.page = policy.page /\ policy'.raw = policy.raw /\ policy'.hits = policy.hits
      /\ DOMAIN policy' = DOMAIN K!Idle
    BY <1>1, CallFields DEF K!Failed
<1>3. K!ConnectorTypes'
    BY <1>1, <1>2, CallFields, CallKeepsTypes
<1>4. \A op : ~K!Answered(op)'
    BY <1>2 DEF K!Answered
<1>5. K!GrantedSoFar' /\ K!HandledSoFar'
    BY <1>1, <1>2, SameServer DEF K!GrantedSoFar, K!HandledSoFar
<1>6. K!GrantedWasGranted' /\ K!WholeOrError'
    BY <1>4 DEF K!GrantedWasGranted, K!WholeOrError, K!PermissionsAreWhole, K!ShortAnswerIsComplete
<1> QED BY <1>3, <1>5, <1>6 DEF K!ConnectorInv

LEMMA RetriedKeepsInv ==
    ASSUME K!ConnectorInv, K!Retried PROVE K!ConnectorInv'
<1>1. /\ K!ConnectorTypes /\ K!GrantedSoFar /\ K!HandledSoFar
      /\ policy.pc \in {"ask", "lookup"} /\ policy' = [policy EXCEPT !.attempt = @ + 1]
      /\ UNCHANGED <<head, trees, granted, ref>>
    BY DEF K!ConnectorInv, K!Retried
<1>2. /\ policy'.pc = policy.pc /\ policy'.op = policy.op /\ policy'.got = policy.got /\ policy'.at = policy.at
      /\ policy'.page = policy.page /\ policy'.raw = policy.raw /\ policy'.hits = policy.hits
      /\ policy'.skipped = policy.skipped /\ DOMAIN policy' = DOMAIN K!Idle
    BY <1>1, CallFields
<1>3. K!ConnectorTypes'
    BY <1>1, <1>2, CallFields, CallKeepsTypes
<1>4. \A op : ~K!Answered(op)'
    BY <1>1, <1>2 DEF K!Answered
<1>5. K!GrantedSoFar'
    <2>1. K!ShownBefore' = K!ShownBefore
        <3>1. K!Endpoint' = K!Endpoint
            BY <1>1, <1>2, SameServer DEF K!Endpoint
        <3>2. \A list : K!PagesBefore(list)' = K!PagesBefore(list)
            BY <1>2 DEF K!PagesBefore, K!Place
        <3> QED BY <1>1, <3>1, <3>2, SameServer DEF K!ShownBefore
    <2>2. /\ K!Endpoints' = K!Endpoints /\ K!Named(trees)' = K!Named(trees)
          /\ \A i : K!ShownAt(i)' = K!ShownAt(i)
        BY <1>1, <1>2, SameServer
    <2>3. ref' = ref
        BY <1>1
    <2> QED BY <1>1, <1>2, <2>1, <2>2, <2>3 DEF K!GrantedSoFar
<1>6. K!HandledSoFar'
    <2>1. \A i : K!Handled(i)' <=> K!Handled(i)
        BY <1>2 DEF K!Handled
    <2> QED BY <1>1, <1>2, <2>1 DEF K!HandledSoFar
<1>7. K!GrantedWasGranted' /\ K!WholeOrError'
    BY <1>4 DEF K!GrantedWasGranted, K!WholeOrError, K!PermissionsAreWhole, K!ShortAnswerIsComplete
<1> QED BY <1>3, <1>5, <1>6, <1>7 DEF K!ConnectorInv

LEMMA BeginKeepsInv ==
    ASSUME K!ConnectorInv, NEW op \in {"permissions", "query", "global"}, NEW raw \in Seq(K!Hits),
           NEW r, K!Begin(op, raw, r)
    PROVE  K!ConnectorInv'
<1>1. /\ K!ConnectorTypes /\ UNCHANGED <<head, trees, granted>>
      /\ policy' = [K!Idle EXCEPT !.op = op, !.pc = "ask", !.raw = raw, !.ref = r]
      /\ ref' = [could |-> K!Named(trees), changed |-> FALSE]
    BY DEF K!ConnectorInv, K!Begin
<1>2. /\ policy'.pc = "ask" /\ policy'.op = op /\ policy'.got = {} /\ policy'.at = 1
      /\ policy'.page = 1 /\ policy'.raw = raw /\ policy'.hits = <<>>
      /\ policy'.skipped = {} /\ DOMAIN policy' = DOMAIN K!Idle
    BY <1>1, CallFields DEF K!Idle
<1>3. K!ConnectorTypes'
    <2>1. <<>> \in Seq([hit : K!Hits, path : K!PathNames]) /\ granted' \in [Projects -> K!PathNames]
          /\ ref'.changed \in BOOLEAN /\ 1 \in Nat \ {0}
        BY <1>1, CallFields
    <2> QED BY <1>1, <1>2, <2>1, CallKeepsTypes
<1>4. \A o : ~K!Answered(o)'
    BY <1>2 DEF K!Answered
<1>5. CASE op = "permissions"
    <2>1. K!Endpoints' = IF head = "bitbucket" THEN K!BitbucketPermissions ELSE K!GitLabPermissions
        BY <1>1, <1>2, <1>5 DEF K!Endpoints
    <2>2. 1 \in 1..Len(K!Endpoints')
        <3>1. Len(K!BitbucketPermissions) = 7 /\ Len(K!GitLabPermissions) = 2
            BY DEF K!BitbucketPermissions, K!GitLabPermissions
        <3>2. Len(K!Endpoints') = 7 \/ Len(K!Endpoints') = 2
            BY <2>1, <3>1
        <3>3. \A n : n = 7 \/ n = 2 => 1 \in 1..n
            OBVIOUS
        <3> QED BY <3>2, <3>3
    <2>4. K!ShownBefore' = {}
        <3>1. (K!ConnectorTypes /\ policy.page = 1 => K!ShownBefore = {})'
            BY FirstPage, PTL
        <3> QED BY <1>2, <1>3, <3>1
    <2>5. K!GrantedSoFar'
        <3>1. K!Named(trees)' \subseteq ref'.could
            BY <1>1, SameServer
        <3>2. 1..(policy'.at - 1) = {}
            BY <1>2
        <3> QED BY <1>2, <2>2, <2>4, <3>1, <3>2 DEF K!GrantedSoFar
    <2> QED BY <1>2, <1>3, <1>4, <1>5, <2>5, PermissionsKeepInv DEF K!GrantedWasGranted, K!PermissionsAreWhole
<1>6. CASE op # "permissions"
    <2>1. \A i \in DOMAIN raw : i \in 1..Len(raw)
        OBVIOUS
    <2>2. raw = <<>> \/ 1 \in DOMAIN raw
        OBVIOUS
    <2>3. K!HandledSoFar'
        BY <1>2, <2>1, <2>2 DEF K!HandledSoFar
    <2> QED BY <1>2, <1>3, <1>4, <1>6, <2>3, SearchKeepsInv DEF K!ShortAnswerIsComplete
<1> QED BY <1>5, <1>6

\* A read of the permissions ends with the last of its requests.
LEMMA MoreRequests ==
    ASSUME policy.op = "permissions", head \in {"bitbucket", "gitlab"}, policy.at \in 1..Len(K!Endpoints)
    PROVE  /\ head = "gitlab" => K!Endpoint \in {"members", "project"}
           /\ K!Endpoint \notin {"all", "project"} => policy.at + 1 \in 1..Len(K!Endpoints)
           /\ head = "bitbucket" /\ K!Endpoint \in {"all", "project"} => policy.at = 7
           /\ head = "gitlab" /\ K!Endpoint \in {"all", "project"} => policy.at = 2
           /\ policy.at \in Nat \ {0}
<1>1. CASE head = "bitbucket"
    <2>1. policy.at \in 1..7 /\ Len(K!Endpoints) = 7
        BY <1>1, EndpointNames
    <2>2. policy.at \in {1, 2, 3, 4, 5, 6, 7}
        BY <2>1
    <2>3. policy.at < 7 => K!Endpoints[policy.at] \notin {"all", "project"}
        <3>1. /\ K!Endpoints[1] = "repo users" /\ K!Endpoints[2] = "repo groups"
              /\ K!Endpoints[3] = "project users" /\ K!Endpoints[4] = "project groups"
              /\ K!Endpoints[5] = "admin users" /\ K!Endpoints[6] = "admin groups"
            BY <1>1, EndpointNames
        <3>2. policy.at < 7 => policy.at \in {1, 2, 3, 4, 5, 6}
            BY <2>2
        <3>3. policy.at \in {1, 2, 3, 4, 5, 6} => K!Endpoints[policy.at] \notin {"all", "project"}
            BY <3>1
        <3> QED BY <3>2, <3>3
    <2>4. policy.at = 7 => K!Endpoints[policy.at] = "all"
        BY <1>1, EndpointNames
    <2>5. policy.at < 7 => policy.at + 1 \in 1..7
        BY <2>1
    <2> QED BY <1>1, <2>1, <2>2, <2>3, <2>4, <2>5 DEF K!Endpoint
<1>2. CASE head = "gitlab"
    <2>1. policy.at \in 1..2 /\ Len(K!Endpoints) = 2
        BY <1>2, EndpointNames
    <2>2. policy.at \in {1, 2}
        BY <2>1
    <2>3. K!Endpoints[1] = "members" /\ K!Endpoints[2] = "project"
        BY <1>2, EndpointNames
    <2>4. policy.at = 1 => policy.at + 1 \in 1..2
        OBVIOUS
    <2> QED BY <1>2, <2>1, <2>2, <2>3, <2>4 DEF K!Endpoint
<1> QED BY <1>1, <1>2

\* A page of readers (GetPermissions, pageItems, pages).
LEMMA PageKeepsInv ==
    ASSUME K!ConnectorInv, K!PermissionPage PROVE K!ConnectorInv'
<1> DEFINE list == K!Listing(K!Endpoint)
           new == K!Grants(K!Endpoint, K!PageOf(list))
<1>1. /\ K!ConnectorTypes /\ K!GrantedSoFar
      /\ policy.pc = "ask" /\ policy.op = "permissions" /\ K!Endpoint \notin {"all", "project"}
      /\ policy' = K!Advance(K!IsLast(list), policy.got \cup new)
      /\ UNCHANGED <<head, trees, granted, ref>>
    BY DEF K!ConnectorInv, K!PermissionPage
<1>2. /\ K!Named(trees) \cup policy.got \subseteq ref.could
      /\ policy.at \in 1..Len(K!Endpoints)
      /\ ~ref.changed =>
            /\ policy.got \subseteq K!Named(trees)
            /\ K!ShownBefore \subseteq policy.got
            /\ \A i \in 1..(policy.at - 1) :
                  \/ K!Endpoints[i] \in {"admin users", "admin groups"} /\ policy.skipped # {}
                  \/ K!ShownAt(i) \subseteq policy.got
    BY <1>1 DEF K!GrantedSoFar
<1>3. head \in {"bitbucket", "gitlab"} /\ policy.page \in Nat \ {0}
    BY <1>1, CallFields
<1>4. /\ policy.at + 1 \in 1..Len(K!Endpoints) /\ policy.at \in Nat \ {0}
      /\ head = "gitlab" => K!Endpoint \in {"members", "project"}
    BY <1>1, <1>2, <1>3, MoreRequests
<1>5. list \in SUBSET (Users \cup Groups)
    BY <1>1, GrantsOfPages
<1>6. new \subseteq K!Named(trees)
    <2>1. K!PageOf(list) \subseteq list
        BY DEF K!PageOf
    <2>2. K!Grants(K!Endpoint, K!PageOf(list)) \subseteq K!Grants(K!Endpoint, list)
        <3> HIDE DEF list
        <3> QED BY <1>1, <2>1, GrantsOfPages
    <2>3. K!Grants(K!Endpoint, list) \subseteq K!Named(trees)
        BY <1>1, <1>4, GrantsOfPages
    <2> QED BY <2>2, <2>3
<1>7. K!ShownBefore = K!Grants(K!Endpoint, K!PagesBefore(list))
    BY DEF K!ShownBefore
<1>8. K!ShownAt(policy.at) = K!Grants(K!Endpoint, list)
    BY DEF K!ShownAt, K!Endpoint
<1> HIDE DEF list
<1>9. CASE K!IsLast(list)
    <2>1. policy' = [policy EXCEPT !.at = @ + 1, !.page = 1, !.attempt = 1, !.got = policy.got \cup new]
        BY <1>1, <1>9 DEF K!Advance
    <2>2. /\ policy'.pc = "ask" /\ policy'.op = "permissions" /\ policy'.got = policy.got \cup new
          /\ policy'.at = policy.at + 1 /\ policy'.page = 1 /\ policy'.raw = policy.raw
          /\ policy'.hits = policy.hits /\ policy'.skipped = policy.skipped /\ DOMAIN policy' = DOMAIN K!Idle
        BY <1>1, <2>1, CallFields
    <2>3. K!ConnectorTypes'
        <3>1. 1 \in Nat \ {0}
            OBVIOUS
        <3> QED BY <1>1, <2>2, <3>1, CallFields, CallKeepsTypes
    <2>4. ~ref.changed => K!ShownAt(policy.at) \subseteq policy.got \cup new
        <3>1. K!Grants(K!Endpoint, list) \subseteq K!Grants(K!Endpoint, K!PagesBefore(list)) \cup new
            BY <1>1, <1>3, <1>5, <1>9, PageCompletes, GrantsOfPages
        <3> QED BY <1>2, <1>7, <1>8, <3>1
    <2>5. K!ShownBefore' = {}
        <3>1. (K!ConnectorTypes /\ policy.page = 1 => K!ShownBefore = {})'
            BY FirstPage, PTL
        <3> QED BY <2>2, <2>3, <3>1
    <2>6. \A i \in 1..(policy'.at - 1) : i = policy.at \/ i \in 1..(policy.at - 1)
        BY <1>4, <2>2
    <2>7. K!GrantedSoFar'
        <3>1. K!Named(trees)' \cup policy'.got \subseteq ref'.could
            BY <1>1, <1>2, <1>6, <2>2, SameServer
        <3>2. K!Endpoints' = K!Endpoints /\ \A i : K!ShownAt(i)' = K!ShownAt(i)
            BY <1>1, <2>2, SameServer
        <3>3. ~ref'.changed => policy'.got \subseteq K!Named(trees)'
            BY <1>1, <1>2, <1>6, <2>2, SameServer
        <3>4. ASSUME ~ref'.changed, NEW i \in 1..(policy'.at - 1)
              PROVE  \/ K!Endpoints'[i] \in {"admin users", "admin groups"} /\ policy'.skipped # {}
                     \/ K!ShownAt(i)' \subseteq policy'.got
            <4>1. CASE i = policy.at
                BY <1>1, <2>2, <2>4, <3>2, <3>4, <4>1
            <4>2. CASE i \in 1..(policy.at - 1)
                BY <1>1, <1>2, <2>2, <3>2, <3>4, <4>2
            <4> QED BY <2>6, <3>4, <4>1, <4>2
        <3>5. policy'.at \in 1..Len(K!Endpoints')
            BY <1>4, <2>2, <3>2
        <3> QED BY <2>2, <2>5, <3>1, <3>3, <3>4, <3>5 DEF K!GrantedSoFar
    <2>8. \A o : ~K!Answered(o)'
        BY <2>2 DEF K!Answered
    <2> QED BY <2>2, <2>3, <2>7, <2>8, PermissionsKeepInv DEF K!GrantedWasGranted, K!PermissionsAreWhole
<1>10. CASE ~K!IsLast(list) /\ policy.page = MaxPages
    BY <1>1, <1>10, CallFields, FailedKeepsInv DEF K!Advance, K!TooManyPages
<1>11. CASE ~K!IsLast(list) /\ policy.page # MaxPages
    <2>1. policy' = [policy EXCEPT !.page = @ + 1, !.attempt = 1, !.got = policy.got \cup new]
        BY <1>1, <1>11 DEF K!Advance
    <2>2. /\ policy'.pc = "ask" /\ policy'.op = "permissions" /\ policy'.got = policy.got \cup new
          /\ policy'.at = policy.at /\ policy'.page = policy.page + 1 /\ policy'.raw = policy.raw
          /\ policy'.hits = policy.hits /\ policy'.skipped = policy.skipped /\ DOMAIN policy' = DOMAIN K!Idle
        BY <1>1, <2>1, CallFields
    <2>3. K!ConnectorTypes'
        <3>1. policy'.page \in Nat \ {0}
            BY <1>3, <2>2
        <3> QED BY <1>1, <2>2, <3>1, CallFields, CallKeepsTypes
    <2>4. K!PagesBefore(list)' \subseteq K!PagesBefore(list) \cup K!PageOf(list) /\ list' = list
        <3>1. policy'.page - 1 = policy.page
            BY <1>3, <2>2
        <3>2. list' = list
            BY <1>1, <2>2, SameServer DEF list, K!Endpoint
        <3> QED BY <3>1, <3>2 DEF K!PagesBefore, K!PageOf, K!Place
    <2>5. K!ShownBefore' \subseteq K!ShownBefore \cup new
        <3>1. K!Endpoint' = K!Endpoint
            BY <1>1, <2>2, SameServer DEF K!Endpoint
        <3>2. K!ShownBefore' = K!Grants(K!Endpoint, K!PagesBefore(list)')
            BY <1>1, <3>1, SameServer DEF K!ShownBefore, list
        <3> QED BY <1>1, <1>7, <2>4, <3>2, GrantsOfPages
    <2>6. K!GrantedSoFar'
        <3>1. K!Named(trees)' \cup policy'.got \subseteq ref'.could
            BY <1>1, <1>2, <1>6, <2>2, SameServer
        <3>2. K!Endpoints' = K!Endpoints /\ \A i : K!ShownAt(i)' = K!ShownAt(i)
            BY <1>1, <2>2, SameServer
        <3>3. ~ref'.changed => policy'.got \subseteq K!Named(trees)' /\ K!ShownBefore' \subseteq policy'.got
            BY <1>1, <1>2, <1>6, <2>2, <2>5, SameServer
        <3>4. ASSUME ~ref'.changed, NEW i \in 1..(policy'.at - 1)
              PROVE  \/ K!Endpoints'[i] \in {"admin users", "admin groups"} /\ policy'.skipped # {}
                     \/ K!ShownAt(i)' \subseteq policy'.got
            BY <1>1, <1>2, <2>2, <3>2, <3>4
        <3>5. policy'.at \in 1..Len(K!Endpoints')
            BY <1>2, <2>2, <3>2
        <3> QED BY <2>2, <3>1, <3>3, <3>4, <3>5 DEF K!GrantedSoFar
    <2>7. \A o : ~K!Answered(o)'
        BY <2>2 DEF K!Answered
    <2> QED BY <2>2, <2>3, <2>6, <2>7, PermissionsKeepInv DEF K!GrantedWasGranted, K!PermissionsAreWhole
<1> QED BY <1>9, <1>10, <1>11

\* Whom the server lists for the repository and its project.
LEMMA Lists ==
    /\ K!Listing("repo users") = trees.repo \cap Users /\ K!Listing("repo groups") = trees.repo \cap Groups
    /\ K!Listing("project users") = trees.project \cap Users
    /\ K!Listing("project groups") = trees.project \cap Groups
    /\ K!Listing("admin users") = (trees.admin \cup Licensed) \cap Users
    /\ K!Listing("admin groups") = trees.admin \cap Groups
    /\ K!Listing("members") = trees.repo
BY DEF K!Listing

\* Whoever is named is shown by one of the requests.
LEMMA NamedIsShown ==
    ASSUME K!ConnectorTypes, policy.op = "permissions"
    PROVE  /\ head = "bitbucket" =>
                 /\ (trees.repo \cup trees.project) \cap (trees.active \cup Groups)
                       \subseteq UNION {K!ShownAt(i) : i \in 1..4}
                 /\ trees.admin \cap (trees.active \cup Groups) \subseteq K!ShownAt(5) \cup K!ShownAt(6)
           /\ head = "gitlab" => trees.repo \cap trees.active = K!ShownAt(1)
<1>1. trees.active \subseteq Users
    BY DEF K!ConnectorTypes
<1>2. CASE head = "bitbucket"
    <2>1. /\ K!ShownAt(1) = trees.repo \cap Users \cap (trees.active \cup Groups)
          /\ K!ShownAt(2) = trees.repo \cap Groups \cap (trees.active \cup Groups)
          /\ K!ShownAt(3) = trees.project \cap Users \cap (trees.active \cup Groups)
          /\ K!ShownAt(4) = trees.project \cap Groups \cap (trees.active \cup Groups)
        BY <1>2, EndpointNames, Lists DEF K!ShownAt, K!Grants, K!BitbucketGrants
    <2>2. /\ K!ShownAt(5) = trees.admin \cap Users \cap (trees.active \cup Groups)
          /\ K!ShownAt(6) = trees.admin \cap Groups \cap (trees.active \cup Groups)
        BY <1>2, EndpointNames, Lists DEF K!ShownAt, K!Grants, K!BitbucketGrants
    <2>3. K!ShownAt(1) \cup K!ShownAt(2) \cup K!ShownAt(3) \cup K!ShownAt(4)
              \subseteq UNION {K!ShownAt(i) : i \in 1..4}
        <3>1. 1 \in 1..4 /\ 2 \in 1..4 /\ 3 \in 1..4 /\ 4 \in 1..4
            OBVIOUS
        <3> QED BY <3>1
    <2>4. (trees.repo \cup trees.project) \cap (trees.active \cup Groups)
              \subseteq K!ShownAt(1) \cup K!ShownAt(2) \cup K!ShownAt(3) \cup K!ShownAt(4)
        BY <1>1, <2>1
    <2>5. trees.admin \cap (trees.active \cup Groups) \subseteq K!ShownAt(5) \cup K!ShownAt(6)
        BY <1>1, <2>2
    <2> QED BY <1>2, <2>3, <2>4, <2>5
<1>3. CASE head = "gitlab"
    <2>1. K!ShownAt(1) = trees.repo \cap trees.active
        BY <1>3, EndpointNames, Lists DEF K!ShownAt, K!Grants, K!GitLabGrants
    <2> QED BY <1>3, <2>1
<1> QED BY <1>2, <1>3 DEF K!ConnectorTypes

\* The last request of a read (GetPermissions).
LEMMA LastKeepsInv ==
    ASSUME K!ConnectorInv, K!LastPermission PROVE K!ConnectorInv'
<1> DEFINE got == K!LastGrants(policy.got)
<1>1. /\ K!ConnectorTypes /\ K!GrantedSoFar
      /\ policy.pc = "ask" /\ policy.op = "permissions" /\ K!Endpoint \in {"all", "project"}
      /\ policy' = K!Succeed(got, <<>>)
      /\ UNCHANGED <<head, trees, granted, ref>>
    BY DEF K!ConnectorInv, K!LastPermission
<1>2. /\ K!Named(trees) \cup policy.got \subseteq ref.could
      /\ policy.at \in 1..Len(K!Endpoints)
      /\ ~ref.changed =>
            /\ policy.got \subseteq K!Named(trees)
            /\ \A i \in 1..(policy.at - 1) :
                  \/ K!Endpoints[i] \in {"admin users", "admin groups"} /\ policy.skipped # {}
                  \/ K!ShownAt(i) \subseteq policy.got
    BY <1>1 DEF K!GrantedSoFar
<1>3. head \in {"bitbucket", "gitlab"}
    BY <1>1, CallFields
<1>4. /\ head = "bitbucket" => policy.at = 7
      /\ head = "gitlab" => policy.at = 2
    BY <1>1, <1>2, <1>3, MoreRequests
<1>5. got \subseteq policy.got \cup K!Named(trees)
    BY <1>3 DEF K!LastGrants, K!Named, K!When
<1>6. policy.got \subseteq K!Named(trees) => got \subseteq K!MayRead(trees)
    BY <1>3 DEF K!LastGrants, K!Named, K!When, K!MayRead
<1>7. ASSUME ~ref.changed
      PROVE  K!MayRead([trees EXCEPT !.admin = IF policy.skipped # {} THEN {} ELSE @]) \subseteq got
    <2> DEFINE r == [trees EXCEPT !.admin = IF policy.skipped # {} THEN {} ELSE @]
    <2>1. /\ r.repo = trees.repo /\ r.project = trees.project /\ r.active = trees.active /\ r.all = trees.all
          /\ r.access = trees.access /\ r.admin = (IF policy.skipped # {} THEN {} ELSE trees.admin)
        BY <1>1 DEF K!ConnectorTypes
    <2> HIDE DEF r
    <2>2. CASE head = "bitbucket"
        <3>1. \A i \in 1..4 : K!ShownAt(i) \subseteq policy.got
            <4>1. K!Endpoints[1] \notin {"admin users", "admin groups"}
                  /\ K!Endpoints[2] \notin {"admin users", "admin groups"}
                  /\ K!Endpoints[3] \notin {"admin users", "admin groups"}
                  /\ K!Endpoints[4] \notin {"admin users", "admin groups"}
                BY <1>1, <2>2, EndpointNames
            <4>2. \A i \in 1..4 : i \in {1, 2, 3, 4} /\ i \in 1..(policy.at - 1)
                BY <1>4, <2>2
            <4>3. \A i \in 1..4 : K!Endpoints[i] \notin {"admin users", "admin groups"}
                BY <4>1, <4>2
            <4> QED BY <1>2, <1>7, <4>2, <4>3
        <3>2. policy.skipped = {} => K!ShownAt(5) \cup K!ShownAt(6) \subseteq policy.got
            <4>1. 5 \in 1..(policy.at - 1) /\ 6 \in 1..(policy.at - 1)
                BY <1>4, <2>2
            <4> QED BY <1>2, <1>7, <4>1
        <3>3. (r.repo \cup r.project \cup r.admin) \cap (r.active \cup Groups) \subseteq policy.got
            <4>1. (trees.repo \cup trees.project) \cap (trees.active \cup Groups)
                      \subseteq UNION {K!ShownAt(i) : i \in 1..4}
                BY <1>1, <2>2, NamedIsShown
            <4>2. trees.admin \cap (trees.active \cup Groups) \subseteq K!ShownAt(5) \cup K!ShownAt(6)
                BY <1>1, <2>2, NamedIsShown
            <4>3. UNION {K!ShownAt(i) : i \in 1..4} \subseteq policy.got
                BY <3>1
            <4> QED BY <2>1, <3>2, <4>1, <4>2, <4>3
        <3> QED BY <2>1, <2>2, <3>3 DEF K!MayRead, K!Named, K!When, K!LastGrants
    <2>3. CASE head = "gitlab"
        <3>1. K!ShownAt(1) \subseteq policy.got
            <4>1. 1 \in 1..(policy.at - 1) /\ K!Endpoints[1] \notin {"admin users", "admin groups"}
                <5>1. K!Endpoints[1] = "members"
                    BY <1>1, <2>3, EndpointNames
                <5> QED BY <1>4, <2>3, <5>1
            <4> QED BY <1>2, <1>7, <4>1
        <3>2. r.repo \cap r.active \subseteq policy.got
            BY <1>1, <2>1, <2>3, <3>1, NamedIsShown
        <3> QED BY <2>1, <2>3, <3>2 DEF K!MayRead, K!Named, K!When, K!LastGrants
    <2> QED BY <1>3, <2>2, <2>3 DEF r
<1> HIDE DEF got
<1>8. /\ policy'.pc = "done" /\ policy'.op = "permissions" /\ policy'.result = "ok" /\ policy'.got = got
      /\ policy'.page = policy.page /\ policy'.raw = policy.raw /\ policy'.hits = <<>>
      /\ policy'.skipped = policy.skipped /\ DOMAIN policy' = DOMAIN K!Idle
    BY <1>1, CallFields DEF K!Succeed
<1>9. K!ConnectorTypes'
    <2>1. <<>> \in Seq([hit : K!Hits, path : K!PathNames])
        OBVIOUS
    <2> QED BY <1>1, <1>8, <2>1, CallFields, CallKeepsTypes
<1>10. K!GrantedSoFar'
    BY <1>1, <1>2, <1>5, <1>8, SameServer DEF K!GrantedSoFar
<1>11. K!GrantedWasGranted'
    <2>1. K!MayRead(trees)' = K!MayRead(trees)
        BY <1>1 DEF K!MayRead, K!Named
    <2> QED BY <1>1, <1>2, <1>5, <1>6, <1>8, <2>1 DEF K!GrantedWasGranted
<1>12. K!PermissionsAreWhole'
    BY <1>1, <1>7, <1>8 DEF K!PermissionsAreWhole, K!MayRead, K!Named
<1> QED BY <1>8, <1>9, <1>10, <1>11, <1>12, PermissionsKeepInv

\* The token may not see the global permissions (GetPermissions).
LEMMA RefusedKeepsInv ==
    ASSUME K!ConnectorInv, K!AdminRefused PROVE K!ConnectorInv'
<1>1. /\ K!ConnectorTypes /\ K!GrantedSoFar
      /\ policy.pc = "ask" /\ policy.op = "permissions" /\ K!Endpoint \in {"admin users", "admin groups"}
      /\ policy' = [policy EXCEPT !.at = Len(K!BitbucketPermissions), !.page = 1, !.attempt = 1,
                                  !.skipped = {"admin"}]
      /\ UNCHANGED <<head, trees, granted, ref>>
    BY DEF K!ConnectorInv, K!AdminRefused
<1>2. /\ K!Named(trees) \cup policy.got \subseteq ref.could
      /\ policy.at \in 1..Len(K!Endpoints)
      /\ ~ref.changed =>
            /\ policy.got \subseteq K!Named(trees)
            /\ \A i \in 1..(policy.at - 1) :
                  \/ K!Endpoints[i] \in {"admin users", "admin groups"} /\ policy.skipped # {}
                  \/ K!ShownAt(i) \subseteq policy.got
    BY <1>1 DEF K!GrantedSoFar
<1>3. head = "bitbucket"
    <2>1. head = "gitlab" => K!Endpoint \in {"members", "project"}
        BY <1>1, <1>2, CallFields, MoreRequests
    <2> QED BY <1>1, <2>1, CallFields
<1>4. /\ policy'.pc = "ask" /\ policy'.op = "permissions" /\ policy'.got = policy.got /\ policy'.at = 7
      /\ policy'.page = 1 /\ policy'.raw = policy.raw /\ policy'.hits = policy.hits
      /\ policy'.skipped = {"admin"} /\ DOMAIN policy' = DOMAIN K!Idle
    <2>1. Len(K!BitbucketPermissions) = 7
        BY DEF K!BitbucketPermissions
    <2> QED BY <1>1, <2>1, CallFields
<1>5. K!ConnectorTypes'
    <2>1. 1 \in Nat \ {0}
        OBVIOUS
    <2> QED BY <1>1, <1>4, <2>1, CallFields, CallKeepsTypes
<1>6. K!ShownBefore' = {}
    <2>1. (K!ConnectorTypes /\ policy.page = 1 => K!ShownBefore = {})'
        BY FirstPage, PTL
    <2> QED BY <1>4, <1>5, <2>1
<1>7. \A i \in 1..6 : i \in 1..(policy.at - 1) \/ K!Endpoints[i] \in {"admin users", "admin groups"}
    <2>1. policy.at \in 1..7 /\ Len(K!Endpoints) = 7
        BY <1>1, <1>2, <1>3, EndpointNames
    <2>2. K!Endpoints[policy.at] \in {"admin users", "admin groups"}
        BY <1>1 DEF K!Endpoint
    <2>3. /\ K!Endpoints[1] = "repo users" /\ K!Endpoints[2] = "repo groups"
          /\ K!Endpoints[3] = "project users" /\ K!Endpoints[4] = "project groups"
          /\ K!Endpoints[5] = "admin users" /\ K!Endpoints[6] = "admin groups"
        BY <1>1, <1>3, EndpointNames
    <2>4. policy.at \notin {1, 2, 3, 4}
        BY <2>2, <2>3
    <2>5. \A i \in 1..6 : i \in {5, 6} \/ i \in 1..(policy.at - 1)
        BY <2>1, <2>4
    <2> QED BY <2>3, <2>5
<1>8. K!GrantedSoFar'
    <2>1. K!Endpoints' = K!Endpoints /\ \A i : K!ShownAt(i)' = K!ShownAt(i)
        BY <1>1, <1>4, SameServer
    <2>2. 7 \in 1..Len(K!Endpoints')
        <3>1. Len(K!Endpoints') = 7
            BY <1>1, <1>3, <2>1, EndpointNames
        <3> QED BY <3>1
    <2>3. ASSUME ~ref'.changed, NEW i \in 1..(policy'.at - 1)
          PROVE  \/ K!Endpoints'[i] \in {"admin users", "admin groups"} /\ policy'.skipped # {}
                 \/ K!ShownAt(i)' \subseteq policy'.got
        <3>1. i \in 1..6
            BY <1>4, <2>3
        <3> QED BY <1>1, <1>2, <1>4, <1>7, <2>1, <2>3, <3>1
    <2>4. K!Named(trees)' = K!Named(trees) /\ policy'.at \in 1..Len(K!Endpoints')
        BY <1>1, <1>4, <2>2, SameServer
    <2>5. /\ K!Named(trees)' \cup policy'.got \subseteq ref'.could
          /\ ~ref'.changed => policy'.got \subseteq K!Named(trees)'
        BY <1>1, <1>2, <1>4, <2>4
    <2> QED BY <1>4, <1>6, <2>3, <2>4, <2>5 DEF K!GrantedSoFar
<1>9. \A o : ~K!Answered(o)'
    BY <1>4 DEF K!Answered
<1> QED BY <1>4, <1>5, <1>8, <1>9, PermissionsKeepInv DEF K!GrantedWasGranted, K!PermissionsAreWhole

\* A hit is taken or passed over (searchCode, searchBlobs).
LEMMA HitKeepsInv ==
    ASSUME K!ConnectorInv, policy.pc \in {"ask", "lookup"}, policy.op \in {"query", "global"},
           NEW hits \in Seq([hit : K!Hits, path : K!PathNames]), NEW skipped,
           policy' = K!AfterPage(hits, skipped),
           UNCHANGED <<head, trees, ref>>, granted' \in [Projects -> K!PathNames],
           policy.skipped \subseteq skipped,
           \A j \in DOMAIN policy.hits : \E k \in DOMAIN hits : hits[k].hit = policy.hits[j].hit,
           policy.page \in DOMAIN policy.raw =>
              \/ policy.raw[policy.page].file = 0
              \/ policy.raw[policy.page] \in skipped
              \/ \E k \in DOMAIN hits : hits[k].hit = policy.raw[policy.page]
    PROVE  K!ConnectorInv'
<1>1. K!ConnectorTypes /\ K!HandledSoFar
    BY DEF K!ConnectorInv
<1>2. /\ policy.page \in Nat \ {0} /\ policy.raw \in Seq(K!Hits) /\ Len(policy.raw) \in Nat
      /\ DOMAIN policy.raw = 1..Len(policy.raw)
    BY <1>1, CallFields
<1>3. ASSUME policy'.raw = policy.raw, policy'.hits = hits, policy'.skipped = skipped,
             NEW i \in DOMAIN policy.raw, i < policy.page \/ i = policy.page
      PROVE  K!Handled(i)'
    <2>1. CASE i < policy.page
        <3>1. K!Handled(i)
            BY <1>1, <2>1 DEF K!HandledSoFar
        <3> QED BY <1>3, <3>1 DEF K!Handled
    <2>2. CASE i = policy.page
        BY <1>3, <2>2 DEF K!Handled
    <2> QED BY <1>3, <2>1, <2>2
<1>4. CASE policy' = K!Failed
    BY <1>4, FailedKeepsInv
<1>5. CASE /\ Len(hits) = Limit \/ policy.page >= Len(policy.raw)
           /\ policy' = [K!Succeed({}, hits) EXCEPT !.skipped = skipped]
    <2>1. /\ policy'.pc = "done" /\ policy'.op = policy.op /\ policy'.page = policy.page /\ policy'.raw = policy.raw
          /\ policy'.hits = hits /\ policy'.skipped = skipped /\ DOMAIN policy' = DOMAIN K!Idle
        BY <1>1, <1>5, CallFields DEF K!Succeed
    <2>2. K!ConnectorTypes'
        BY <1>1, <1>2, <2>1, CallFields, CallKeepsTypes
    <2>3. ASSUME Len(hits) < Limit, NEW i \in DOMAIN policy.raw PROVE K!Handled(i)'
        <3>1. Len(hits) \in Nat
            OBVIOUS
        <3>2. policy.page >= Len(policy.raw)
            BY <1>5, <2>3, <3>1
        <3>3. i < policy.page \/ i = policy.page
            BY <1>2, <2>3, <3>2
        <3> QED BY <1>3, <2>1, <3>3
    <2>4. K!ShortAnswerIsComplete'
        BY <2>1, <2>3 DEF K!ShortAnswerIsComplete
    <2>5. K!HandledSoFar'
        BY <2>1 DEF K!HandledSoFar
    <2> QED BY <2>1, <2>2, <2>4, <2>5, SearchKeepsInv
<1>6. CASE /\ ~(policy.page >= Len(policy.raw))
           /\ policy' = [policy EXCEPT !.page = @ + 1, !.attempt = 1, !.hits = hits, !.skipped = skipped, !.pc = "ask"]
    <2>1. /\ policy'.pc = "ask" /\ policy'.op = policy.op /\ policy'.page = policy.page + 1
          /\ policy'.raw = policy.raw /\ policy'.hits = hits /\ policy'.skipped = skipped
          /\ DOMAIN policy' = DOMAIN K!Idle
        BY <1>1, <1>6, CallFields
    <2>2. policy'.page \in Nat \ {0} /\ policy'.page \in DOMAIN policy.raw
        BY <1>2, <1>6, <2>1
    <2>3. K!ConnectorTypes'
        BY <1>1, <2>1, <2>2, CallFields, CallKeepsTypes
    <2>4. \A i \in DOMAIN policy.raw : i < policy'.page => i < policy.page \/ i = policy.page
        BY <1>2, <2>1
    <2>5. K!HandledSoFar'
        BY <1>3, <2>1, <2>2, <2>4 DEF K!HandledSoFar
    <2>6. K!ShortAnswerIsComplete'
        BY <2>1 DEF K!ShortAnswerIsComplete, K!Answered
    <2> QED BY <2>1, <2>3, <2>5, <2>6, SearchKeepsInv
<1>7. \/ policy' = K!Failed
      \/ /\ Len(hits) = Limit \/ policy.page >= Len(policy.raw)
         /\ policy' = [K!Succeed({}, hits) EXCEPT !.skipped = skipped]
      \/ /\ ~(policy.page >= Len(policy.raw))
         /\ policy' = [policy EXCEPT !.page = @ + 1, !.attempt = 1, !.hits = hits, !.skipped = skipped, !.pc = "ask"]
    BY DEF K!AfterPage, K!TooManyPages
<1> QED BY <1>4, <1>5, <1>6, <1>7

\* One more hit.
LEMMA AppendedHits ==
    ASSUME NEW hits \in Seq([hit : K!Hits, path : K!PathNames]), NEW h \in K!Hits, NEW path \in K!PathNames
    PROVE  /\ Append(hits, K!Labelled(h, path)) \in Seq([hit : K!Hits, path : K!PathNames])
           /\ \A j \in DOMAIN hits : \E k \in DOMAIN Append(hits, K!Labelled(h, path)) :
                 Append(hits, K!Labelled(h, path))[k].hit = hits[j].hit
           /\ \E k \in DOMAIN Append(hits, K!Labelled(h, path)) : Append(hits, K!Labelled(h, path))[k].hit = h
<1> DEFINE x == [hit |-> h, path |-> path]
           longer == Append(hits, x)
<1>1. x \in [hit : K!Hits, path : K!PathNames] /\ x.hit = h /\ K!Labelled(h, path) = x
    BY DEF K!Labelled
<1> HIDE DEF x
<1>2. /\ longer \in Seq([hit : K!Hits, path : K!PathNames]) /\ DOMAIN longer = 1..(Len(hits) + 1)
      /\ \A j \in 1..Len(hits) : longer[j] = hits[j]
      /\ longer[Len(hits) + 1] = x
    BY <1>1
<1>3. DOMAIN hits = 1..Len(hits) /\ Len(hits) \in Nat
    OBVIOUS
<1> HIDE DEF longer
<1>4. \A j \in DOMAIN hits : j \in DOMAIN longer /\ longer[j].hit = hits[j].hit
    BY <1>2, <1>3
<1>5. Len(hits) + 1 \in DOMAIN longer /\ longer[Len(hits) + 1].hit = h
    BY <1>1, <1>2, <1>3
<1> QED BY <1>1, <1>2, <1>4, <1>5 DEF longer

\* A page of hits, and the project of one (SearchQuery, SearchGlobalQuery, project).
LEMMA SearchPageKeepsInv ==
    ASSUME K!ConnectorInv, K!SearchPage PROVE K!ConnectorInv'
<1> DEFINE h == policy.raw[policy.page]
<1>1. /\ K!ConnectorTypes /\ K!HandledSoFar
      /\ policy.pc = "ask" /\ policy.op # "permissions"
      /\ UNCHANGED <<head, trees, granted, ref>>
    BY DEF K!ConnectorInv, K!SearchPage
<1>2. policy.op \in {"query", "global"} /\ granted' \in [Projects -> K!PathNames]
    BY <1>1, CallFields
<1>3. /\ policy.page \in DOMAIN policy.raw \/ policy.raw = <<>>
      /\ policy.hits \in Seq([hit : K!Hits, path : K!PathNames]) /\ policy.raw \in Seq(K!Hits)
    BY <1>1, <1>2, CallFields DEF K!HandledSoFar
<1>4. CASE (policy.raw = <<>> \/ ~K!UsableHit(h)) /\ policy' = K!AfterPage(policy.hits, policy.skipped)
    <2>1. ASSUME policy.page \in DOMAIN policy.raw
          PROVE  \/ h.file = 0 \/ h \in policy.skipped
                 \/ \E k \in DOMAIN policy.hits : policy.hits[k].hit = h
        <3>1. policy.raw # <<>>
            BY <2>1
        <3> QED BY <1>4, <3>1 DEF K!UsableHit
    <2>2. \A j \in DOMAIN policy.hits : \E k \in DOMAIN policy.hits : policy.hits[k].hit = policy.hits[j].hit
        OBVIOUS
    <2> QED BY <1>1, <1>2, <1>3, <1>4, <2>1, <2>2, HitKeepsInv
<1>5. ASSUME policy.raw # <<>>, NEW path \in K!PathNames,
             policy' = K!AfterPage(Append(policy.hits, K!Labelled(h, path)), policy.skipped)
      PROVE  K!ConnectorInv'
    <2>1. h \in K!Hits
        BY <1>3, <1>5
    <2> DEFINE hits == Append(policy.hits, K!Labelled(h, path))
    <2>2. /\ hits \in Seq([hit : K!Hits, path : K!PathNames])
          /\ \A j \in DOMAIN policy.hits : \E k \in DOMAIN hits : hits[k].hit = policy.hits[j].hit
          /\ \E k \in DOMAIN hits : hits[k].hit = h
        BY <1>3, <1>5, <2>1, AppendedHits
    <2> HIDE DEF hits
    <2>3. policy' = K!AfterPage(hits, policy.skipped)
        BY <1>5 DEF hits
    <2> QED BY <1>1, <1>2, <2>2, <2>3, HitKeepsInv
<1>6. CASE policy.raw # <<>> /\ policy' = [policy EXCEPT !.pc = "lookup", !.attempt = 1]
    <2>1. /\ policy'.pc = "lookup" /\ policy'.op = policy.op /\ policy'.page = policy.page
          /\ policy'.raw = policy.raw /\ policy'.hits = policy.hits /\ policy'.skipped = policy.skipped
          /\ DOMAIN policy' = DOMAIN K!Idle
        BY <1>1, <1>6, CallFields
    <2>2. K!ConnectorTypes'
        BY <1>1, <1>2, <2>1, CallFields, CallKeepsTypes
    <2>3. \A i : K!Handled(i)' <=> K!Handled(i)
        BY <2>1 DEF K!Handled
    <2>4. K!HandledSoFar'
        BY <1>1, <1>2, <1>3, <1>6, <2>1, <2>3 DEF K!HandledSoFar
    <2>5. K!ShortAnswerIsComplete'
        BY <2>1 DEF K!ShortAnswerIsComplete, K!Answered
    <2> QED BY <1>1, <2>1, <2>2, <2>4, <2>5, SearchKeepsInv
<1>7. policy.raw # <<>> => granted[h.project] \in K!PathNames /\ trees.paths[h.project] \in K!PathNames
    <2>1. policy.raw # <<>> => h \in K!Hits
        BY <1>3
    <2> HIDE DEF h
    <2>2. h \in K!Hits => h.project \in Projects
        BY DEF K!Hits
    <2> QED BY <1>1, <2>1, <2>2 DEF K!ConnectorTypes
<1>8. \/ (policy.raw = <<>> \/ ~K!UsableHit(h)) /\ policy' = K!AfterPage(policy.hits, policy.skipped)
      \/ policy.raw # <<>> /\ policy' = [policy EXCEPT !.pc = "lookup", !.attempt = 1]
      \/ policy.raw # <<>> /\ policy' = K!AfterPage(Append(policy.hits, K!Labelled(h, granted[h.project])), policy.skipped)
      \/ policy.raw # <<>> /\ policy' = K!AfterPage(Append(policy.hits, K!Labelled(h, trees.paths[h.project])), policy.skipped)
    BY DEF K!SearchPage
<1> QED BY <1>4, <1>5, <1>6, <1>7, <1>8

LEMMA LookupKeepsInv ==
    ASSUME K!ConnectorInv, K!LookupProject PROVE K!ConnectorInv'
<1> DEFINE h == policy.raw[policy.page]
           path == trees.paths[h.project]
           hits == Append(policy.hits, K!Labelled(h, path))
<1>1. /\ K!ConnectorTypes /\ K!HandledSoFar
      /\ policy.pc = "lookup" /\ UNCHANGED <<head, trees, ref>>
      /\ \/ policy' = K!AfterPage(policy.hits, policy.skipped \cup {h}) /\ granted' = granted
         \/ policy' = K!AfterPage(hits, policy.skipped) /\ granted' = [granted EXCEPT ![h.project] = path]
    BY DEF K!ConnectorInv, K!LookupProject
<1>2. policy.op \in {"query", "global"}
    BY <1>1, CallFields
<1>3. /\ policy.page \in DOMAIN policy.raw
      /\ policy.hits \in Seq([hit : K!Hits, path : K!PathNames]) /\ policy.raw \in Seq(K!Hits)
    BY <1>1, <1>2, CallFields DEF K!HandledSoFar
<1>4. h \in K!Hits /\ h.project \in Projects
    <2>1. h \in K!Hits
        BY <1>3
    <2> HIDE DEF h
    <2> QED BY <2>1 DEF K!Hits
<1>5. path \in K!PathNames /\ granted \in [Projects -> K!PathNames]
    BY <1>1, <1>4 DEF K!ConnectorTypes
<1>6. CASE policy' = K!AfterPage(policy.hits, policy.skipped \cup {h}) /\ granted' = granted
    <2> DEFINE skipped == policy.skipped \cup {h}
    <2>1. policy.skipped \subseteq skipped /\ h \in skipped
        OBVIOUS
    <2>2. \A j \in DOMAIN policy.hits : \E k \in DOMAIN policy.hits : policy.hits[k].hit = policy.hits[j].hit
        OBVIOUS
    <2>3. policy' = K!AfterPage(policy.hits, skipped)
        BY <1>6
    <2> HIDE DEF skipped
    <2> QED BY <1>1, <1>2, <1>3, <1>5, <1>6, <2>1, <2>2, <2>3, HitKeepsInv
<1>7. CASE policy' = K!AfterPage(hits, policy.skipped) /\ granted' = [granted EXCEPT ![h.project] = path]
    <2>1. /\ hits \in Seq([hit : K!Hits, path : K!PathNames])
          /\ \A j \in DOMAIN policy.hits : \E k \in DOMAIN hits : hits[k].hit = policy.hits[j].hit
          /\ \E k \in DOMAIN hits : hits[k].hit = h
        BY <1>3, <1>4, <1>5, AppendedHits
    <2>2. granted' \in [Projects -> K!PathNames]
        <3> HIDE DEF h, path, hits
        <3> QED BY <1>5, <1>7
    <2> HIDE DEF hits
    <2> QED BY <1>1, <1>2, <1>7, <2>1, <2>2, HitKeepsInv
<1> QED BY <1>1, <1>6, <1>7

\* The answer is handed over (syncRepository).
LEMMA ReturnKeepsInv ==
    ASSUME K!ConnectorInv, K!Return PROVE K!ConnectorInv'
<1>1. /\ K!ConnectorTypes /\ UNCHANGED <<head, trees, granted>> /\ policy' = K!Idle /\ ref' = K!Nothing
    BY DEF K!ConnectorInv, K!Return
<1>2. /\ policy'.pc = "idle" /\ policy'.op = "none" /\ policy'.page = 1 /\ policy'.raw = <<>>
      /\ policy'.hits = <<>> /\ ref'.changed \in BOOLEAN
    BY <1>1 DEF K!Idle, K!Nothing
<1>3. K!ConnectorTypes'
    BY <1>1, <1>2 DEF K!ConnectorTypes
<1>4. K!HandledSoFar' /\ K!ShortAnswerIsComplete'
    BY <1>2 DEF K!HandledSoFar, K!ShortAnswerIsComplete, K!Answered
<1> QED BY <1>2, <1>3, <1>4, SearchKeepsInv

LEMMA ConnectorStep == K!ConnectorInv /\ [K!Next]_(K!vars) => K!ConnectorInv'
<1> SUFFICES ASSUME K!ConnectorInv, [K!Next]_(K!vars) PROVE K!ConnectorInv'
    OBVIOUS
<1>1. CASE K!RequestFails
    <2>1. K!ConnectorTypes /\ policy.pc \in {"ask", "lookup"} /\ policy' = K!Failed
          /\ UNCHANGED <<head, trees, granted, ref>>
        BY <1>1 DEF K!ConnectorInv, K!RequestFails
    <2>2. granted' \in [Projects -> K!PathNames]
        BY <2>1, CallFields
    <2> QED BY <2>1, <2>2, FailedKeepsInv
<1>2. CASE K!Begin("permissions", <<>>, "default")
    <2>1. <<>> \in Seq(K!Hits)
        OBVIOUS
    <2> QED BY <1>2, <2>1, BeginKeepsInv
<1>3. ASSUME NEW raw \in K!BoundedSeq(K!Hits, MaxRaw), NEW r,
             K!Begin("global", raw, "default") \/ K!Begin("query", raw, r)
      PROVE  K!ConnectorInv'
    BY <1>3, RawHits, BeginKeepsInv
<1>4. CASE UNCHANGED K!vars
    <2>1. UNCHANGED <<head, trees, granted, policy, ref>>
        BY <1>4 DEF K!vars
    <2>2. K!ConnectorTypes'
        BY <2>1 DEF K!ConnectorInv, K!ConnectorTypes
    <2>3. K!GrantedSoFar'
        <3>1. K!Endpoint' = K!Endpoint
            BY <2>1, SameServer DEF K!Endpoint
        <3>2. \A list : K!PagesBefore(list)' = K!PagesBefore(list)
            BY <2>1 DEF K!PagesBefore, K!Place
        <3>3. K!ShownBefore' = K!ShownBefore
            BY <2>1, <3>1, <3>2, SameServer DEF K!ShownBefore
        <3> QED BY <2>1, <3>3, SameServer DEF K!ConnectorInv, K!GrantedSoFar
    <2>4. /\ \A i : K!Handled(i)' <=> K!Handled(i)
          /\ \A o : K!Answered(o)' <=> K!Answered(o)
        BY <2>1 DEF K!Handled, K!Answered
    <2>5. K!HandledSoFar' /\ K!ShortAnswerIsComplete'
        BY <2>1, <2>4 DEF K!ConnectorInv, K!HandledSoFar, K!WholeOrError, K!ShortAnswerIsComplete
    <2>6. K!GrantedWasGranted' /\ K!PermissionsAreWhole'
        BY <2>1, <2>4
           DEF K!ConnectorInv, K!WholeOrError, K!GrantedWasGranted, K!PermissionsAreWhole, K!MayRead, K!Named
    <2> QED BY <2>2, <2>3, <2>5, <2>6 DEF K!ConnectorInv, K!WholeOrError
<1> QED BY <1>1, <1>2, <1>3, <1>4, ServerKeepsInv, PageKeepsInv, LastKeepsInv, RefusedKeepsInv, RetriedKeepsInv,
           SearchPageKeepsInv, LookupKeepsInv, ReturnKeepsInv DEF K!Next

-----------------------------------------------------------------------------
(* The components together.                                                *)

ExternalInv ==
    /\ part = "search" => ProjectionInv
    /\ part = "vectors" => V!VectorInv
    /\ part = "connectors" => K!ConnectorInv
    /\ part = "documents" => D!JiraInv

LEMMA ExternalInvariant == ExternalSpec => []ExternalInv
<1>1. ExternalInit => ExternalInv
    BY ProjectionInit, VectorInit, ConnectorInit, JiraInit DEF ExternalInit, ExternalInv
<1>2. ExternalInv /\ [ExternalNext]_<<part, vars>> => ExternalInv'
    <2> SUFFICES ASSUME ExternalInv, [ExternalNext]_<<part, vars>> PROVE ExternalInv'
        OBVIOUS
    <2>1. CASE part = "search" /\ [Next]_vars /\ part' = part
        BY <2>1, ProjectionStep DEF ExternalInv
    <2>2. CASE part = "vectors" /\ [V!Next]_(V!vars) /\ part' = part
        BY <2>2, VectorStep DEF ExternalInv
    <2>3. CASE part = "connectors" /\ [K!Next]_(K!vars) /\ part' = part
        BY <2>3, ConnectorStep DEF ExternalInv
    <2>4. CASE part = "documents" /\ [D!Next]_(D!vars) /\ part' = part
        BY <2>4, JiraStep DEF ExternalInv
    <2>5. CASE part \notin {"search", "vectors", "connectors", "documents"} /\ part' = part
        BY <2>5 DEF ExternalInv
    <2>6. CASE UNCHANGED <<part, vars>>
        <3>1. part' = part /\ UNCHANGED vars /\ UNCHANGED V!vars /\ UNCHANGED K!vars /\ UNCHANGED D!vars
            BY <2>6 DEF vars, V!vars, K!vars, D!vars
        <3> QED BY <3>1, <2>1, <2>2, <2>3, <2>4, <2>5
    <2> QED BY <2>1, <2>2, <2>3, <2>4, <2>6 DEF ExternalNext
<1> QED BY <1>1, <1>2, PTL DEF ExternalSpec

-----------------------------------------------------------------------------

\* Under a stamp of a ref's commit the search index holds the ref's chunks, for any chunks,
\* replicas and commits, whichever items of bulk requests failed: a diff that was recorded
\* is applied to what it starts from, and an index filled in two halves is stamped only
\* once it is full (SearchProjection: SyncRef, markProjection).  Excepted (overtaken) are
\* another run of the ref in between, a publish of the very commit the stamp names, such
\* as a branch forced back, and a repetition for new permissions that fails half way.
THEOREM StampStandsForTheChunks == ExternalSpec => []StampedRefIsIndexed
<1>1. ProjectionInv => StampedChunksAreIndexed
    BY DEF ProjectionInv, InStep, StampHeld, StampedChunksAreIndexed, Projecting
<1>2. ExternalInv => StampedRefIsIndexed
    BY <1>1 DEF ExternalInv, StampedRefIsIndexed
<1> QED BY <1>2, ExternalInvariant, PTL

\* A projection that got to its end alone leaves exactly the embeddings of its ref in the
\* vector database, for any number of chunks, refs, models and workers, any size of a page
\* and whatever failed, changed or was rebuilt before (VectorStore: projectVectors,
\* streamVectors).
THEOREM ProjectionIsComplete == ExternalSpec => []ProjectedRefIsFound
<1>1. V!VectorInv => V!ProjectedRefIsFound
    <2> SUFFICES ASSUME V!VectorInv, NEW r \in changes, NEW i \in V!IdsOf(r)
                 PROVE  vectors[i] = model <=> trees[i] = model
        BY DEF V!ProjectedRefIsFound, V!Search
    <2>1. vectors[i] = V!Wanted(i) /\ model \in Embedders
        BY DEF V!VectorInv, V!VectorTypes, V!SettledIsHeld
    <2> QED BY <2>1, VectorAssumption DEF V!Wanted
<1>2. ExternalInv => ProjectedRefIsFound
    BY <1>1 DEF ExternalInv, ProjectedRefIsFound
<1> QED BY <1>2, ExternalInvariant, PTL

\* While a Jira project reports the stored revision, every issue of it is indexed as it
\* is, for any number of issues, edits and failed runs, those edited while a run read
\* them included (DocumentSources: ListBranches, ListFiles, GetFile).
THEOREM JiraRevisionStandsForContent == ExternalSpec => []JiraEditIsNoticed
<1>1. D!JiraInv => D!JiraEditIsNoticed
    <2> SUFFICES ASSUME D!JiraInv, head = "jira", model.ever, model.revision = D!Revision,
                        policy <= model.at
                 PROVE  \A p \in D!Listed : model.pages[p] = trees[p]
        BY DEF D!JiraEditIsNoticed, D!RevisionStandsForContent
    <2>1. D!JiraTypes /\ D!StoredIsTheListing
        BY DEF D!JiraInv
    <2>2. /\ \A p \in Pages : trees[p] <= D!Revision.at /\ trees[p] \in Nat
          /\ D!Revision.at \in Nat
        BY <2>1, RevisionIsLast DEF D!Revision, D!JiraTypes
    <2>3. model.revision.at <= model.at /\ model.at \in Nat
        BY <2>1 DEF D!StoredIsTheListing, D!JiraTypes
    <2>4. D!Unedited(model.at)
        BY <2>2, <2>3 DEF D!Unedited
    <2> QED BY <2>1, <2>4 DEF D!StoredIsTheListing
<1>2. ExternalInv => JiraEditIsNoticed
    BY <1>1 DEF ExternalInv, JiraEditIsNoticed
<1> QED BY <1>2, ExternalInvariant, PTL

\* A read of the permissions that succeeds names nobody whom the source did not name during
\* it and, if nothing changed meanwhile, everyone it names; a search that answers short has
\* every hit that can be used: for any lists, any size of a page and bound on pages,
\* whatever is tried again or refused (SourceConnectors: GetPermissions, pageItems, pages,
\* searchCode, searchBlobs).
THEOREM AnswersAreWhole == ExternalSpec => []SourceAnswerIsWhole
<1>1. ExternalInv => SourceAnswerIsWhole
    BY DEF ExternalInv, K!ConnectorInv, SourceAnswerIsWhole
<1> QED BY <1>1, ExternalInvariant, PTL
=============================================================================
