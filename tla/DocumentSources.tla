--------------------------- MODULE DocumentSources ---------------------------
(***************************************************************************)
(* Confluence spaces and Jira projects as index sources.  Neither has      *)
(* commits: the connector makes up a revision of the whole space from the  *)
(* pages it sees, and the indexer re-reads the space only when a poll      *)
(* brings another revision than the one it stored.  The pages have no      *)
(* snapshot either: they are read one by one while people keep editing.    *)
(***************************************************************************)
EXTENDS Integers, FiniteSets, FiniteSetsExt

CONSTANTS
    Pages,
    Limit,       \* pages one listing returns, 1000 in both connectors
    MaxClock,    \* bound: edits and deletions of the space
    MaxFaults    \* bound: requests that fail

VARIABLES
    source,      \* "confluence" or "jira"
    edited,      \* when each page was last edited, 0 while it does not exist
    clock,
    removed,     \* when a page was last deleted
    indexed,     \* the stored revision, when it was asked for, and the pages behind it
    run,         \* the index run of the space's only ref
    faults

vars == <<source, edited, clock, removed, indexed, run, faults>>

NotThere == 0
Existing == {p \in Pages : edited[p] # NotThere}

\* The revisions: the text "empty", or a time followed by the page's id.
Empty == [at |-> 0, page |-> 0]
Token(p) == [at |-> edited[p], page |-> p]

Revisions == [at : Nat, page : Pages \cup {0}]

\* Text order: every time starts with a digit, which is before the e of "empty".
Greater(a, b) == b # Empty /\ a.at > b.at

\* Confluence lists pages by id, Jira by the time of the last edit.
ListedByConfluence == {p \in Existing : Cardinality({q \in Existing : q < p}) < Limit}
ListedByJira == {p \in Existing : Cardinality({q \in Existing : edited[q] > edited[p]}) < Limit}
Listed == IF source = "jira" THEN ListedByJira ELSE ListedByConfluence

\* confluence ListBranches: the greatest token of the listing, starting at "empty".
ConfluenceRevision ==
    LET Later(p, latest) == IF Greater(Token(p), latest) THEN Token(p) ELSE latest
    IN  FoldSet(Later, Empty, ListedByConfluence)

\* Mutant: issues ordered by their time, the oldest first.
OldestRevision ==
    IF Existing = {} THEN Empty
    ELSE Token(CHOOSE p \in Existing : \A q \in Existing : edited[q] >= edited[p])

\* jira ListBranches: the token of the issue edited last.
JiraRevision ==
    IF Existing = {} THEN Empty
    ELSE Token(CHOOSE p \in Existing : \A q \in Existing : edited[q] <= edited[p])

Revision == IF source = "jira" THEN JiraRevision ELSE ConfluenceRevision

NoRun == [pc |-> "idle", revision |-> Empty, at |-> 0, todo |-> {}, read |-> <<>>]
Nothing == [p \in Pages |-> NotThere]

Init ==
    /\ source \in {"confluence", "jira"}
    /\ edited = Nothing
    /\ clock = 0
    /\ removed = 0
    /\ indexed = [revision |-> Empty, at |-> 0, pages |-> Nothing, ever |-> FALSE]
    /\ run = NoRun
    /\ faults = 0

(***************************************************************************)
(* The space.                                                              *)
(***************************************************************************)

Edit(p) ==
    /\ clock < MaxClock
    /\ clock' = clock + 1
    /\ edited' = [edited EXCEPT ![p] = clock']
    /\ UNCHANGED <<source, removed, indexed, run, faults>>

Delete(p) ==
    /\ clock < MaxClock
    /\ edited[p] # NotThere
    /\ clock' = clock + 1
    /\ edited' = [edited EXCEPT ![p] = NotThere]
    /\ removed' = clock'
    /\ UNCHANGED <<source, indexed, run, faults>>

(***************************************************************************)
(* The index run: revision, listing, the pages one by one, publish.        *)
(***************************************************************************)

\* worker.execute asks for the branches; syncRef leaves a ref alone whose stored
\* commit is the reported one.
Poll ==
    /\ run.pc = "idle"
    /\ run' = IF indexed.ever /\ indexed.revision = Revision
              THEN run
              ELSE [NoRun EXCEPT !.pc = "list", !.revision = Revision, !.at = clock]
    /\ UNCHANGED <<source, edited, clock, removed, indexed, faults>>

ListFiles ==
    /\ run.pc = "list"
    /\ run' = [run EXCEPT !.pc = "read", !.todo = Listed, !.read = Nothing]
    /\ UNCHANGED <<source, edited, clock, removed, indexed, faults>>

\* GetFile reads the page as it is by now.
GetFile(p) ==
    /\ run.pc = "read"
    /\ p \in run.todo
    /\ edited[p] # NotThere
    /\ run' = [run EXCEPT !.todo = @ \ {p}, !.read[p] = edited[p]]
    /\ UNCHANGED <<source, edited, clock, removed, indexed, faults>>

\* A page that is gone, an answer that is no 2xx, a body that does not decode:
\* the connectors try once and the run fails as a whole.
FailRun == run' = NoRun

PageGone(p) ==
    /\ run.pc = "read"
    /\ p \in run.todo
    /\ edited[p] = NotThere
    /\ FailRun
    /\ UNCHANGED <<source, edited, clock, removed, indexed, faults>>

RequestFails ==
    /\ run.pc \in {"list", "read"}
    /\ faults < MaxFaults
    /\ faults' = faults + 1
    /\ FailRun
    /\ UNCHANGED <<source, edited, clock, removed, indexed>>

\* What was read becomes the ref, under the revision the run started from.
Publish ==
    /\ run.pc = "read"
    /\ run.todo = {}
    /\ indexed' = [revision |-> run.revision, at |-> run.at, pages |-> run.read, ever |-> TRUE]
    /\ run' = NoRun
    /\ UNCHANGED <<source, edited, clock, removed, faults>>

Next ==
    \/ \E p \in Pages : Edit(p) \/ Delete(p) \/ GetFile(p) \/ PageGone(p)
    \/ Poll \/ ListFiles \/ RequestFails \/ Publish

Spec == Init /\ [][Next]_vars

-----------------------------------------------------------------------------
(* Properties *)

\* The stored revision stands for the listing: while the source still reports
\* it, no poll reads the space again, so every page the listing shows has to be
\* indexed as it is now.
RevisionStandsForContent ==
    indexed.ever /\ indexed.revision = Revision /\ removed <= indexed.at
        => \A p \in Listed : indexed.pages[p] = edited[p]

\* Jira's revision moves with every edit, also with one made while the run that
\* is stored was reading the issues one by one (jira ListBranches, ListFiles,
\* GetFile).  Deletions leave it where it is.
JiraEditIsNoticed == source = "jira" => RevisionStandsForContent

\* Types of a Jira project's state.
JiraTypes ==
    /\ clock \in Nat
    /\ edited \in [Pages -> 0..clock]
    /\ removed \in 0..clock
    /\ indexed \in [revision : Revisions, at : 0..clock, pages : [Pages -> Nat], ever : BOOLEAN]
    /\ run \in [pc : {"idle", "list", "read"}, revision : Revisions, at : 0..clock,
                todo : SUBSET Pages, read : [Pages -> Nat] \cup {<<>>}]

Unedited(t) == removed <= t /\ \A p \in Pages : edited[p] <= t

\* What a run has read stays true of the issues for as long as nobody edits or deletes
\* one after the run asked for its revision.
RunReadsTheListing ==
    /\ run.revision.at <= run.at
    /\ run.pc = "read" => run.read \in [Pages -> Nat]
    /\ run.pc = "read" /\ Unedited(run.at)
           => \A p \in Listed \ run.todo : run.read[p] = edited[p]

\* The same of the stored revision, which is no later than the poll it is from.
StoredIsTheListing ==
    /\ indexed.revision.at <= indexed.at
    /\ indexed.ever /\ Unedited(indexed.at) => \A p \in Listed : indexed.pages[p] = edited[p]

\* The inductive invariant of a Jira project.
JiraInv == source = "jira" => JiraTypes /\ RunReadsTheListing /\ StoredIsTheListing

\* The connector puts "the newest page's timestamp, version and id" into the
\* commit column, "or the literal empty for a space with nothing in it": an edited
\* space has another revision (confluence ListBranches).
ConfluenceEditIsNoticed == source = "confluence" => RevisionStandsForContent
=============================================================================
