----------------------------- MODULE MCExternal -----------------------------
(***************************************************************************)
(* What the system keeps on other servers and what it reads from them, for *)
(* TLC: the search index (SearchProjection) and the vector database        *)
(* (VectorStore), the source servers (SourceConnectors) and the document   *)
(* spaces (DocumentSources).  As modelled they share no state, so a        *)
(* behaviour is one of one of them, and the state space is their sum, not  *)
(* their product: the component that runs uses the variables of            *)
(* SearchProjection as its own, and leaves blank those it has no use for.  *)
(***************************************************************************)
EXTENDS SearchProjection, FiniteSets

CONSTANTS Ids, RefOf, Embedders, Dimensions, PageSize,             \* VectorStore
          Projectors, Admin, MaxTurns,
          Users, Groups, Members, Licensed, Everyone, PageLength,  \* SourceConnectors
          MaxPages, MaxAttempts, Limit, Projects, ProjectPaths, Gone, MaxRaw,
          Pages, MaxClock, MaxFaults,                              \* DocumentSources
          None

\* What the proofs assume of them.
ASSUME VectorAssumption ==
    /\ IsFiniteSet(Ids) /\ Ids \subseteq Nat \ {0}
    /\ PageSize \in Nat \ {0}
    /\ {None, "everything"} \cap {RefOf[i] : i \in Ids} = {} /\ None # "everything"
    /\ {None, "bad"} \cap Embedders = {} /\ None # "bad"
    /\ Admin \notin Projectors
ASSUME ConnectorAssumption ==
    /\ IsFiniteSet(Users) /\ IsFiniteSet(Groups) /\ Users \cup Groups \subseteq Nat
    /\ Members \subseteq Users
    /\ PageLength \in Nat /\ MaxRaw \in Nat

\* The values the cfg gives: two chunks in one ref, a third in another, and two models
\* whose embeddings differ in size.
ThreeChunks == <<"a", "a", "b">>
TwoSizes == [m \in Embedders |-> IF m = "m1" THEN 1 ELSE 2]

VARIABLE part     \* which component runs

V == INSTANCE VectorStore WITH enabled <- head, rows <- trees, collection <- granted,
                               proc <- policy, owed <- ref, settled <- changes,
                               Models <- Embedders, Workers <- Projectors, MaxEvents <- MaxTurns
K == INSTANCE SourceConnectors WITH client <- head, remote <- trees, cache <- granted, call <- policy,
                                    stored <- model, seen <- ref, Paths <- ProjectPaths
D == INSTANCE DocumentSources WITH source <- head, edited <- trees, clock <- granted,
                                   removed <- policy, indexed <- model, faults <- events

\* What the three others do not use.
others == <<rows, permitted, stamp, documents, overtaken>>
NoOthers == rows = None /\ permitted = None /\ stamp = None /\ documents = None /\ overtaken = None

ExternalInit ==
    \/ part = "search" /\ Init
    \/ part = "vectors" /\ V!Init /\ NoOthers /\ run = None
    \/ part = "connectors" /\ K!Init /\ NoOthers /\ run = None /\ changes = None /\ vectors = None
    \/ part = "documents" /\ D!Init /\ NoOthers /\ ref = None /\ changes = None /\ vectors = None

ExternalNext ==
    \/ part = "search" /\ Next /\ UNCHANGED part
    \/ part = "vectors" /\ V!Next /\ UNCHANGED <<part, others, run>>
    \/ part = "connectors" /\ K!Next /\ UNCHANGED <<part, others, run, changes, vectors>>
    \/ part = "documents" /\ D!Next /\ UNCHANGED <<part, others, ref, changes, vectors>>

ExternalSpec == ExternalInit /\ [][ExternalNext]_<<part, vars>>

-----------------------------------------------------------------------------
(* Properties *)

\* Under a stamp of the ref's commit the search index holds exactly the ref's
\* chunks (SearchProjection: SyncRef, markProjection).
StampedRefIsIndexed == part = "search" => StampedChunksAreIndexed

\* A ref that was projected alone to its end is found in the vector database
\* (VectorStore: projectVectors, streamVectors).
ProjectedRefIsFound == part = "vectors" => V!ProjectedRefIsFound

\* A read of the permissions grants nobody whom the source never named during it, and
\* what a paged call answers is whole (SourceConnectors: GetPermissions, searchBlobs).
SourceAnswerIsWhole == part = "connectors" => K!GrantedWasGranted /\ K!WholeOrError

\* An edit before the last completed poll of a Jira project is in the index
\* (DocumentSources: ListBranches, ListFiles, GetFile).
JiraEditIsNoticed == part = "documents" => D!JiraEditIsNoticed
=============================================================================
